---------------------------- MODULE Spec2Model ----------------------------
(***************************************************************************)
(* Download orchestration engine of domestika-downloader: the progress     *)
(* ledger (progress.csv), the filesystem probe, the manifest cache, the    *)
(* retry loop of downloadVideo and the bounded-concurrency scheduler of    *)
(* scrapeSite.                                                             *)
(*                                                                         *)
(* Text is modelled as follows.  A CSV file is a sequence of lines, a line *)
(* a sequence of cells, a cell a string.  A file name is a sequence of     *)
(* tokens whose last token is the extension.  Numbers are integers, NaN is *)
(* the integer -1, and number <-> text conversions go through Digits.      *)
(***************************************************************************)
EXTENDS Integers, Sequences, FiniteSets, TLC

(***************************************************************************)
(* Bounds of the model.                                                    *)
(***************************************************************************)
MaxVideos == 2        \* videos in a manifest
MaxUnits == 2         \* units in a manifest
MaxIndex == 3         \* largest unit number and video index asked about
MaxSaves == 2         \* saveVideoProgress calls of the ledger harness
MaxReinvoke == 1      \* re-invocations of scrapeSite after a credential refresh
MaxTicks == 3         \* clock steps of the cache harness
MaxLoads == 2         \* loadCourseMetadata calls of the cache harness
MaxChecks == 2        \* isCourseFullyDownloaded calls of the flag harness
MaxRestarts == 1      \* process runs after the first, over the same course
MaxSubs == 2          \* subtitle paths handed to embedSubtitles

(***************************************************************************)
(* Text helpers.                                                           *)
(***************************************************************************)
NaN == 0 - 1

Digits == <<"0", "1", "2", "3", "4", "5", "6", "7", "8", "9", "10", "11", "12">>

\* Number.prototype.toString / template interpolation of a number
ToStr(n) == IF n = NaN THEN "NaN" ELSE Digits[n + 1]

\* Number.parseInt(s, 10)
ParseInt(s) ==
    IF \E n \in 0..(Len(Digits) - 1) : Digits[n + 1] = s
    THEN CHOOSE n \in 0..(Len(Digits) - 1) : Digits[n + 1] = s
    ELSE NaN

\* String.prototype.toLowerCase on the status texts that occur
ToLower(s) ==
    CASE s = "Completed" -> "completed"
      [] s = "COMPLETED" -> "completed"
      [] s = "Failed" -> "failed"
      [] OTHER -> s

Range(s) == {s[k] : k \in DOMAIN s}

IsPrefix(p, s) == Len(p) <= Len(s) /\ SubSeq(s, 1, Len(p)) = p

(***************************************************************************)
(* Course URLs.  The universe of URL texts, and for each what the regular  *)
(* expression /domestika\.org\/.*?\/courses\/(\d+)-([-\w]+)/ captures.     *)
(***************************************************************************)
Norm1 == "https://www.domestika.org/es/courses/1/course"
Norm2 == "https://www.domestika.org/es/courses/2/course"
Main1en == "https://www.domestika.org/en/courses/1-ink-drawing"
Unit1es == "https://www.domestika.org/es/courses/1-ink-drawing/units/7-intro"
Course1en == "https://www.domestika.org/en/courses/1-ink-drawing/course"
Main2es == "https://www.domestika.org/es/courses/2-clay"
Foreign == "https://example.org/courses/1"

Urls == {Norm1, Norm2, Main1en, Unit1es, Course1en, Main2es, Foreign}

\* match[1] and match[2] of the course regex, or no match.  The normalized
\* forms do not match: after the digits the regex needs "-" and finds "/".
courseRegex(url) ==
    CASE url \in {Main1en, Unit1es, Course1en} ->
             [matched |-> TRUE, id |-> "1", slug |-> "ink-drawing"]
      [] url = Main2es -> [matched |-> TRUE, id |-> "2", slug |-> "clay"]
      [] OTHER -> [matched |-> FALSE, id |-> "", slug |-> ""]

\* slug.replace(/-/g, ' ') with every word capitalised
rawTitle(slug) ==
    CASE slug = "ink-drawing" -> "Ink Drawing"
      [] slug = "clay" -> "Clay"
      [] OTHER -> slug

\* `https://www.domestika.org/es/courses/${match[1]}/course`
courseUrlOf(id) == IF id = "1" THEN Norm1 ELSE Norm2

\* courseTitle "" stands for null
normalizeDomestikaUrl(url) ==
    LET match == courseRegex(url) IN
    IF match.matched
    THEN [url |-> courseUrlOf(match.id), courseTitle |-> rawTitle(match.slug)]
    ELSE [url |-> url, courseTitle |-> ""]

\* getVideoId built on the URL as given
getVideoIdRaw(courseUrl, unitNumber, videoIndex) ==
    <<courseUrl, ToStr(unitNumber), ToStr(videoIndex)>>

\* `${normalized.url}|${unitNumber}|${videoIndex}`
getVideoId(courseUrl, unitNumber, videoIndex) ==
    <<normalizeDomestikaUrl(courseUrl).url, ToStr(unitNumber), ToStr(videoIndex)>>

\* `${normalized.url}|*|*`
wildcardId(courseUrl) == <<normalizeDomestikaUrl(courseUrl).url, "*", "*">>

(***************************************************************************)
(* progress.csv                                                            *)
(***************************************************************************)
H9 == <<"url", "courseTitle", "unitNumber", "unitTitle", "videoIndex",
        "videoTitle", "status", "timestamp", "retryCount">>
H8 == SubSeq(H9, 1, 8)
\* header of the course-level file written by the first release
H4 == <<"url", "courseTitle", "status", "timestamp">>

NoFile == [exists |-> FALSE, lines |-> <<>>]
FileOf(ls) == [exists |-> TRUE, lines |-> ls]

\* timestamps: rows of earlier runs carry Before, rows of this run ThisRun
Before == "2024-01-01T00:00:00.000Z"
ThisRun == "2025-01-01T00:00:00.000Z"

\* csv-parse/sync with columns: true: the first line names the columns, and
\* a record whose length differs from the header's is an error
csvParseSync(lines) ==
    IF lines = <<>> THEN [ok |-> TRUE, records |-> <<>>]
    ELSE LET cols == lines[1]
             body == SubSeq(lines, 2, Len(lines))
         IN IF \E k \in DOMAIN body : Len(body[k]) # Len(cols)
            THEN [ok |-> FALSE, records |-> <<>>]
            ELSE [ok |-> TRUE,
                  records |-> [k \in DOMAIN body |->
                      [c \in Range(cols) |->
                          body[k][CHOOSE n \in DOMAIN cols : cols[n] = c]]]]

\* row.key, "" when the column is missing (undefined and "" are both falsy)
Field(row, key) == IF key \in DOMAIN row THEN row[key] ELSE ""

\* a || b || ...
Or2(a, b) == IF a # "" THEN a ELSE b
Or4(a, b, c, d) == Or2(a, Or2(b, Or2(c, d)))

rowUrl(row) ==
    Or4(Field(row, "url"), Field(row, "URL"), Field(row, "course_url"),
        Field(row, "courseUrl"))
rowStatus(row) == Or2(Field(row, "status"), Field(row, "Status"))
rowUnitNumber(row) == Or2(Field(row, "unitNumber"), Field(row, "unit_number"))
rowVideoIndex(row) == Or2(Field(row, "videoIndex"), Field(row, "video_index"))

\* loadProgressRow taking a video-level row whatever its status
loadProgressRowAnyStatus(row) ==
    IF /\ rowUrl(row) # ""
       /\ rowUnitNumber(row) # ""
       /\ rowVideoIndex(row) # ""
    THEN {getVideoId(normalizeDomestikaUrl(rowUrl(row)).url,
                     ParseInt(rowUnitNumber(row)),
                     ParseInt(rowVideoIndex(row)))}
    ELSE IF /\ rowUrl(row) # ""
            /\ ToLower(rowStatus(row)) = "completed"
            /\ rowUnitNumber(row) = ""
            /\ rowVideoIndex(row) = ""
         THEN {wildcardId(rowUrl(row))}
         ELSE {}

\* loadProgressRow without the course-level branch
loadProgressRowNoWildcard(row) ==
    IF /\ rowUrl(row) # ""
       /\ rowUnitNumber(row) # ""
       /\ rowVideoIndex(row) # ""
       /\ ToLower(rowStatus(row)) = "completed"
    THEN {getVideoId(normalizeDomestikaUrl(rowUrl(row)).url,
                     ParseInt(rowUnitNumber(row)),
                     ParseInt(rowVideoIndex(row)))}
    ELSE {}

\* the identities one parsed row contributes to the completed set
loadProgressRow(row) ==
    IF /\ rowUrl(row) # ""
       /\ rowUnitNumber(row) # ""
       /\ rowVideoIndex(row) # ""
       /\ ToLower(rowStatus(row)) = "completed"
    THEN {getVideoId(normalizeDomestikaUrl(rowUrl(row)).url,
                     ParseInt(rowUnitNumber(row)),
                     ParseInt(rowVideoIndex(row)))}
    ELSE IF /\ rowUrl(row) # ""
            /\ ToLower(rowStatus(row)) = "completed"
            /\ rowUnitNumber(row) = ""
            /\ rowVideoIndex(row) = ""
         THEN {wildcardId(rowUrl(row))}
         ELSE {}

loadProgress(file) ==
    IF ~file.exists THEN {}
    ELSE LET parsed == csvParseSync(file.lines) IN
         IF ~parsed.ok THEN {}
         ELSE UNION {loadProgressRow(parsed.records[k]) :
                       k \in DOMAIN parsed.records}

(***************************************************************************)
(* The download directory.  A directory entry is                           *)
(* [dir, name, size, isFile]; name is a token sequence ending with the     *)
(* extension ("" when there is none).                                      *)
(***************************************************************************)
\* path.join(base, courseTitle || 'Unknown Course', section, unitTitle)
finalDirOf(courseTitle, section, unitTitle) ==
    <<IF courseTitle = "" THEN "Unknown Course" ELSE courseTitle,
      section, unitTitle>>

\* `${courseTitle} - U${unitNumber} - ${videoIndex}_${videoTitle.trimEnd()}`
fileNameBase(courseTitle, unitNumber, videoIndex, videoTitle) ==
    <<IF courseTitle = "" THEN "null" ELSE courseTitle,
      " - U", ToStr(unitNumber), " - ", ToStr(videoIndex), "_", videoTitle>>

possibleExtensions == {".mp4", ".m3u8", ".ts", ".mkv", ".avi"}

extname(name) == IF name = <<>> THEN "" ELSE name[Len(name)]

\* the set of paths the probe may return ({} is null): readdirSync order is
\* the file system's, the callers only test for null
checkVideoFileExists(dsk, courseTitle, unitTitle, unitNumber, videoIndex, videoTitle, section) ==
    LET finalDir == finalDirOf(courseTitle, section, unitTitle)
        base == fileNameBase(courseTitle, unitNumber, videoIndex, videoTitle)
    IN {f \in dsk :
          /\ f.dir = finalDir
          /\ IsPrefix(base, f.name)
          /\ extname(f.name) \in possibleExtensions \cup {""}
          /\ f.isFile
          /\ f.size > 0}

\* isVideoCompleted without the probe of the download directory
isVideoCompletedLedgerOnly(courseUrl, unitNumber, videoIndex, completed, dsk, withTitles, courseTitle, unitTitle, videoTitle, section) ==
    \/ getVideoId(courseUrl, unitNumber, videoIndex) \in completed
    \/ wildcardId(courseUrl) \in completed

\* withTitles: whether the four optional title arguments were supplied
isVideoCompleted(courseUrl, unitNumber, videoIndex, completed, dsk, withTitles, courseTitle, unitTitle, videoTitle, section) ==
    \/ getVideoId(courseUrl, unitNumber, videoIndex) \in completed
    \/ wildcardId(courseUrl) \in completed
    \/ /\ withTitles
       /\ checkVideoFileExists(dsk, courseTitle, unitTitle, unitNumber,
                               videoIndex, videoTitle, section) # {}

hasCsvHeader(file) ==
    /\ file.exists
    /\ file.lines # <<>>
    /\ file.lines[1] \in {H8, H9}

\* the quoted CSV row of one entry
csvRow(courseUrl, courseTitle, unitNumber, unitTitle, videoIndex, videoTitle, status, retryCount) ==
    LET normalized == normalizeDomestikaUrl(courseUrl) IN
    <<normalized.url,
      Or2(courseTitle, normalized.courseTitle),
      ToStr(unitNumber), unitTitle, ToStr(videoIndex), videoTitle,
      status, ThisRun, ToStr(retryCount)>>

\* saveVideoProgress without the writtenVideoIds check
saveVideoProgressNoDedup(st, writable, courseUrl, courseTitle, unitNumber, unitTitle, videoIndex, videoTitle, status, retryCount) ==
    LET normalized == normalizeDomestikaUrl(courseUrl)
        videoId == getVideoId(normalized.url, unitNumber, videoIndex)
        withHeader ==
            IF ~st.file.exists THEN <<H9>>
            ELSE IF ~hasCsvHeader(st.file) THEN <<H9>> \o st.file.lines
            ELSE st.file.lines
        row == csvRow(courseUrl, courseTitle, unitNumber, unitTitle,
                      videoIndex, videoTitle, status, retryCount)
    IN IF writable = "fails" THEN st
       ELSE IF writable = "appendFails"
       THEN [file |-> FileOf(withHeader), written |-> st.written]
       ELSE [file |-> FileOf(Append(withHeader, row)),
             written |-> st.written \cup {videoId}]

\* saveVideoProgress writing nothing for a `failed` status
saveVideoProgressCompletedOnly(st, writable, courseUrl, courseTitle, unitNumber, unitTitle, videoIndex, videoTitle, status, retryCount) ==
    LET normalized == normalizeDomestikaUrl(courseUrl)
        videoId == getVideoId(normalized.url, unitNumber, videoIndex)
        withHeader ==
            IF ~st.file.exists THEN <<H9>>
            ELSE IF ~hasCsvHeader(st.file) THEN <<H9>> \o st.file.lines
            ELSE st.file.lines
        row == csvRow(courseUrl, courseTitle, unitNumber, unitTitle,
                      videoIndex, videoTitle, status, retryCount)
    IN IF videoId \in st.written \/ status = "failed" THEN st
       ELSE IF writable = "fails" THEN st
       ELSE IF writable = "appendFails"
       THEN [file |-> FileOf(withHeader), written |-> st.written]
       ELSE [file |-> FileOf(Append(withHeader, row)),
             written |-> st.written \cup {videoId}]

\* saveVideoProgress leaving the header behind whenever a write fails
saveVideoProgressHeaderFirst(st, writable, courseUrl, courseTitle, unitNumber, unitTitle, videoIndex, videoTitle, status, retryCount) ==
    LET normalized == normalizeDomestikaUrl(courseUrl)
        videoId == getVideoId(normalized.url, unitNumber, videoIndex)
        withHeader ==
            IF ~st.file.exists THEN <<H9>>
            ELSE IF ~hasCsvHeader(st.file) THEN <<H9>> \o st.file.lines
            ELSE st.file.lines
        row == csvRow(courseUrl, courseTitle, unitNumber, unitTitle,
                      videoIndex, videoTitle, status, retryCount)
    IN IF videoId \in st.written THEN st
       ELSE IF writable \in {"fails", "appendFails"}
       THEN [file |-> FileOf(withHeader), written |-> st.written]
       ELSE [file |-> FileOf(Append(withHeader, row)),
             written |-> st.written \cup {videoId}]

\* how the file system answers the writes of one saveVideoProgress call:
\* every write succeeds, every write fails, or the header is written and
\* the append of the row fails
WriteOutcomes == {"ok", "fails", "appendFails"}

\* saveVideoProgress on [file, written]; writable is the answer of the file
\* system (the catch branch keeps what was written before the error, and
\* the identity is not put in the write-dedup set)
saveVideoProgress(st, writable, courseUrl, courseTitle, unitNumber, unitTitle, videoIndex, videoTitle, status, retryCount) ==
    LET normalized == normalizeDomestikaUrl(courseUrl)
        videoId == getVideoId(normalized.url, unitNumber, videoIndex)
        withHeader ==
            IF ~st.file.exists THEN <<H9>>
            ELSE IF ~hasCsvHeader(st.file) THEN <<H9>> \o st.file.lines
            ELSE st.file.lines
        row == csvRow(courseUrl, courseTitle, unitNumber, unitTitle,
                      videoIndex, videoTitle, status, retryCount)
    IN IF videoId \in st.written THEN st
       ELSE IF writable = "fails" THEN st
       ELSE IF writable = "appendFails"
       THEN [file |-> FileOf(withHeader), written |-> st.written]
       ELSE [file |-> FileOf(Append(withHeader, row)),
             written |-> st.written \cup {videoId}]


(***************************************************************************)
(* course-metadata-cache.json: a map from normalized course URL to         *)
(* [metadata, timestamp, courseTitle, fullyDownloaded].  A manifest        *)
(* (Unit[]) is the sequence of its units, a unit the sequence of its       *)
(* videos, a video whether it has a playbackURL; unit k has unitNumber k.  *)
(***************************************************************************)
DEFAULT_TTL_MS == 7 * 24 * 60 * 60 * 1000

\* environment values are texts, "" when the variable is not set
getCacheTTL(e) ==
    IF e.CACHE_TTL # "" /\ ParseInt(e.CACHE_TTL) # NaN /\ ParseInt(e.CACHE_TTL) > 0
    THEN ParseInt(e.CACHE_TTL)
    ELSE DEFAULT_TTL_MS

isCacheDisabled(e) == e.NO_CACHE \in {"true", "1"}

\* isCacheValid with the boundary included
isCacheValidInclusive(cached, e, t) == t - cached.timestamp <= getCacheTTL(e)

isCacheValid(cached, e, t) == t - cached.timestamp < getCacheTTL(e)

Without(cache, key) == [u \in DOMAIN cache \ {key} |-> cache[u]]

With(cache, key, entry) ==
    [u \in DOMAIN cache \cup {key} |-> IF u = key THEN entry ELSE cache[u]]

\* loadCourseMetadata dropping the whole cache file when one entry has expired
loadCourseMetadataClearAll(cache, e, t, courseUrl) ==
    LET key == normalizeDomestikaUrl(courseUrl).url IN
    IF isCacheDisabled(e) THEN [hit |-> FALSE, metadata |-> <<>>, cache |-> cache]
    ELSE IF key \notin DOMAIN cache
    THEN [hit |-> FALSE, metadata |-> <<>>, cache |-> cache]
    ELSE IF ~isCacheValid(cache[key], e, t)
    THEN [hit |-> FALSE, metadata |-> <<>>, cache |-> <<>>]
    ELSE [hit |-> TRUE, metadata |-> cache[key].metadata, cache |-> cache]

\* [hit, metadata, cache]: the result (hit FALSE is null) and the cache file
\* after the call
loadCourseMetadata(cache, e, t, courseUrl) ==
    LET key == normalizeDomestikaUrl(courseUrl).url IN
    IF isCacheDisabled(e) THEN [hit |-> FALSE, metadata |-> <<>>, cache |-> cache]
    ELSE IF key \notin DOMAIN cache
    THEN [hit |-> FALSE, metadata |-> <<>>, cache |-> cache]
    ELSE IF ~isCacheValid(cache[key], e, t)
    THEN [hit |-> FALSE, metadata |-> <<>>, cache |-> Without(cache, key)]
    ELSE [hit |-> TRUE, metadata |-> cache[key].metadata, cache |-> cache]

saveCourseMetadata(cache, e, t, courseUrl, metadata, courseTitle) ==
    IF isCacheDisabled(e) THEN cache
    ELSE With(cache, normalizeDomestikaUrl(courseUrl).url,
              [metadata |-> metadata, timestamp |-> t,
               courseTitle |-> courseTitle, fullyDownloaded |-> FALSE])

\* the videos of a manifest in order, unit k carrying unitNumber k
RECURSIVE videosOf(_, _)
videosOf(units, k) ==
    IF k > Len(units) THEN <<>>
    ELSE [a \in DOMAIN units[k] |->
             [unitNumber |-> k, videoIndex |-> a, playbackURL |-> units[k][a]]]
         \o videosOf(units, k + 1)

\* the cover image downloadCoverImage leaves in the course folder
CoverFile(courseTitle) ==
    [dir |-> <<IF courseTitle = "" THEN "Unknown Course" ELSE courseTitle>>,
     name |-> <<"cover", ".jpg">>, size |-> 1, isFile |-> TRUE]

\* whether the course folder holds a cover image
coverImageExists(dsk, courseTitle) ==
    \E f \in dsk :
        /\ f.dir = <<IF courseTitle = "" THEN "Unknown Course" ELSE courseTitle>>
        /\ f.name # <<>>
        /\ f.name[1] = "cover"
        /\ f.isFile

\* every video identity of the cached manifest is in the completed set, and
\* there is at least one
allVideosCompleted(key, metadata, completed) ==
    LET videos == videosOf(metadata, 1)
        completedCount == Cardinality({k \in DOMAIN videos :
            getVideoId(key, videos[k].unitNumber, videos[k].videoIndex) \in completed})
    IN Len(videos) > 0 /\ completedCount = Len(videos)

\* isCourseFullyDownloaded setting the flag from video completion alone
isCourseFullyDownloadedNoCover(cache, e, t, courseUrl, completed, dsk) ==
    LET key == normalizeDomestikaUrl(courseUrl).url IN
    IF isCacheDisabled(e) THEN [result |-> FALSE, cache |-> cache]
    ELSE IF key \notin DOMAIN cache THEN [result |-> FALSE, cache |-> cache]
    ELSE IF ~isCacheValid(cache[key], e, t) THEN [result |-> FALSE, cache |-> cache]
    ELSE IF cache[key].fullyDownloaded THEN [result |-> TRUE, cache |-> cache]
    ELSE IF allVideosCompleted(key, cache[key].metadata, completed)
    THEN [result |-> TRUE,
          cache |-> With(cache, key, [cache[key] EXCEPT !.fullyDownloaded = TRUE])]
    ELSE [result |-> FALSE, cache |-> cache]

\* isCourseFullyDownloaded recomputing on every call
isCourseFullyDownloadedNoShortCircuit(cache, e, t, courseUrl, completed, dsk) ==
    LET key == normalizeDomestikaUrl(courseUrl).url IN
    IF isCacheDisabled(e) THEN [result |-> FALSE, cache |-> cache]
    ELSE IF key \notin DOMAIN cache THEN [result |-> FALSE, cache |-> cache]
    ELSE IF ~isCacheValid(cache[key], e, t) THEN [result |-> FALSE, cache |-> cache]
    ELSE IF allVideosCompleted(key, cache[key].metadata, completed)
    THEN IF coverImageExists(dsk, cache[key].courseTitle)
         THEN [result |-> TRUE,
               cache |-> With(cache, key, [cache[key] EXCEPT !.fullyDownloaded = TRUE])]
         ELSE [result |-> FALSE, cache |-> cache]
    ELSE [result |-> FALSE, cache |-> cache]

\* [result, cache]: the answer and the cache file after the call
isCourseFullyDownloaded(cache, e, t, courseUrl, completed, dsk) ==
    LET key == normalizeDomestikaUrl(courseUrl).url IN
    IF isCacheDisabled(e) THEN [result |-> FALSE, cache |-> cache]
    ELSE IF key \notin DOMAIN cache THEN [result |-> FALSE, cache |-> cache]
    ELSE IF ~isCacheValid(cache[key], e, t) THEN [result |-> FALSE, cache |-> cache]
    ELSE IF cache[key].fullyDownloaded THEN [result |-> TRUE, cache |-> cache]
    ELSE IF allVideosCompleted(key, cache[key].metadata, completed)
    THEN IF coverImageExists(dsk, cache[key].courseTitle)
         THEN [result |-> TRUE,
               cache |-> With(cache, key, [cache[key] EXCEPT !.fullyDownloaded = TRUE])]
         ELSE [result |-> FALSE, cache |-> cache]
    ELSE [result |-> FALSE, cache |-> cache]

(***************************************************************************)
(* Course-level rows of progress.csv.                                      *)
(***************************************************************************)
\* records.findIndex(...): the first course-level record of the course, 0
\* when there is none
existingIndex(records, courseUrl) ==
    LET hits == {k \in DOMAIN records :
                    /\ rowUrl(records[k]) # ""
                    /\ rowUnitNumber(records[k]) = ""
                    /\ rowVideoIndex(records[k]) = ""
                    /\ normalizeDomestikaUrl(rowUrl(records[k])).url =
                           normalizeDomestikaUrl(courseUrl).url}
    IN IF hits = {} THEN 0 ELSE CHOOSE k \in hits : \A h \in hits : k <= h

\* one record as csv-stringify writes it under the eight columns
recordLine(record) ==
    <<Field(record, "url"), Field(record, "courseTitle"),
      Or2(Field(record, "unitNumber"), Field(record, "unit_number")),
      Or2(Field(record, "unitTitle"), Field(record, "unit_title")),
      Or2(Field(record, "videoIndex"), Field(record, "video_index")),
      Or2(Field(record, "videoTitle"), Field(record, "video_title")),
      Field(record, "status"), Field(record, "timestamp")>>

\* saveProgress: the whole file is parsed (no records when that fails) and
\* written back with the course-level entry replaced or added
saveProgress(file, courseUrl, courseTitle, status) ==
    LET normalized == normalizeDomestikaUrl(courseUrl)
        parsed == IF file.exists THEN csvParseSync(file.lines)
                  ELSE [ok |-> TRUE, records |-> <<>>]
        records == IF parsed.ok THEN parsed.records ELSE <<>>
        entry == <<normalized.url, Or2(courseTitle, normalized.courseTitle),
                   "", "", "", "", status, ThisRun>>
        at == existingIndex(records, courseUrl)
        kept == [k \in DOMAIN records |->
                    IF k = at THEN entry ELSE recordLine(records[k])]
    IN FileOf(<<H8>> \o (IF at > 0 THEN kept ELSE Append(kept, entry)))

(***************************************************************************)
(* Configuration of the scheduler and of the retry loop.                   *)
(***************************************************************************)
\* the ceiling read without the fallback to 2
MAX_CONCURRENT_DOWNLOADSNoFallback(e) ==
    IF e.MAX_CONCURRENT_DOWNLOADS # "" THEN ParseInt(e.MAX_CONCURRENT_DOWNLOADS) ELSE 2

\* the constant MAX_CONCURRENT_DOWNLOADS of scrapeSite
MAX_CONCURRENT_DOWNLOADS(e) ==
    LET maxConcurrentEnv == IF e.MAX_CONCURRENT_DOWNLOADS # ""
                            THEN ParseInt(e.MAX_CONCURRENT_DOWNLOADS) ELSE 2
    IN IF maxConcurrentEnv = NaN \/ maxConcurrentEnv < 1 THEN 2 ELSE maxConcurrentEnv

getMaxRetryAttempts(e) ==
    LET maxRetryEnv == IF e.MAX_RETRY_ATTEMPTS # ""
                       THEN ParseInt(e.MAX_RETRY_ATTEMPTS) ELSE 5
    IN IF maxRetryEnv = NaN \/ maxRetryEnv < 1 THEN 5 ELSE maxRetryEnv

Min(a, b) == IF a <= b THEN a ELSE b

\* getBackoffWaitTime with the exponent one too high
getBackoffWaitTimeNextPower(attempt) == Min(2 ^ (attempt + 1) * 1000, 5 * 60 * 1000)

getBackoffWaitTime(attempt) == Min(2 ^ attempt * 1000, 5 * 60 * 1000)

\* the loop condition with the slot test off by one
slotsFullAbove(activePromises, e) ==
    Cardinality(activePromises) > MAX_CONCURRENT_DOWNLOADS(e)

\* activePromises.size >= MAX_CONCURRENT_DOWNLOADS
slotsFull(activePromises, e) ==
    Cardinality(activePromises) >= MAX_CONCURRENT_DOWNLOADS(e)

(***************************************************************************)
(* downloadVideo.  A job is one call:                                      *)
(* [unitNumber, videoIndex, pc, existingFile, retryCount, trace, rejected] *)
(* with pc the place the call has reached and trace the fetch-tool runs    *)
(* and backoff waits it has made, in order.                                *)
(***************************************************************************)
Run(tier, ok, retryCount) ==
    [kind |-> "run", tier |-> tier, ok |-> ok, ms |-> 0, retryCount |-> retryCount]

Wait(ms, retryCount) ==
    [kind |-> "wait", tier |-> "", ok |-> FALSE, ms |-> ms, retryCount |-> retryCount]

\* the call as it stands at its first await, the probe of the target
\* directory already made; a video without playbackURL throws at once
startDownloadVideo(video, existingFile) ==
    [unitNumber |-> video.unitNumber, videoIndex |-> video.videoIndex,
     pc |-> IF video.playbackURL THEN "probed" ELSE "threw",
     existingFile |-> existingFile, retryCount |-> 0, trace |-> <<>>,
     rejected |-> FALSE]

\* onToolExit counting a failure of either tier as a failed attempt
onToolExitEachTier(job, ok, maxRetries) ==
    LET tier == IF job.pc = "tier1" THEN "1080p" ELSE "best"
        ran == Append(job.trace, Run(tier, ok, job.retryCount))
    IN IF ok THEN [job EXCEPT !.pc = "post", !.trace = ran]
       ELSE IF job.retryCount < maxRetries
       THEN [job EXCEPT !.pc = "wait", !.retryCount = job.retryCount + 1,
                        !.trace = Append(ran, Wait(getBackoffWaitTime(job.retryCount),
                                                   job.retryCount + 1))]
       ELSE [job EXCEPT !.pc = "threw", !.trace = ran]

\* onToolExit with the retry test one too generous
onToolExitOneMore(job, ok, maxRetries) ==
    LET tier == IF job.pc = "tier1" THEN "1080p" ELSE "best"
        ran == Append(job.trace, Run(tier, ok, job.retryCount))
    IN IF ok THEN [job EXCEPT !.pc = "post", !.trace = ran]
       ELSE IF job.pc = "tier1" THEN [job EXCEPT !.pc = "tier2", !.trace = ran]
       ELSE IF job.retryCount <= maxRetries
       THEN [job EXCEPT !.pc = "wait", !.retryCount = job.retryCount + 1,
                        !.trace = Append(ran, Wait(getBackoffWaitTime(job.retryCount),
                                                   job.retryCount + 1))]
       ELSE [job EXCEPT !.pc = "threw", !.trace = ran]

\* one pass of the retry loop's body at the exit of the fetch tool: success
\* leaves the loop, a failed 1080p run starts the best run, a failed best
\* run either counts a retry and starts the backoff wait or gives up
onToolExit(job, ok, maxRetries) ==
    LET tier == IF job.pc = "tier1" THEN "1080p" ELSE "best"
        ran == Append(job.trace, Run(tier, ok, job.retryCount))
    IN IF ok THEN [job EXCEPT !.pc = "post", !.trace = ran]
       ELSE IF job.pc = "tier1" THEN [job EXCEPT !.pc = "tier2", !.trace = ran]
       ELSE IF job.retryCount < maxRetries
       THEN [job EXCEPT !.pc = "wait", !.retryCount = job.retryCount + 1,
                        !.trace = Append(ran, Wait(getBackoffWaitTime(job.retryCount),
                                                   job.retryCount + 1))]
       ELSE [job EXCEPT !.pc = "threw", !.trace = ran]

\* the loop condition after the backoff wait
afterWait(job, maxRetries) ==
    [job EXCEPT !.pc = IF job.retryCount <= maxRetries THEN "tier1" ELSE "returned"]

\* how the post-processing of one downloaded video can go.  Without a
\* language selection there is none.  With one: no subtitle file is obtained
\* (the fetch fails or leaves no file), or the video file that was found is
\* no longer there when waitForFileComplete has polled for its 30 s and the
\* wait throws, or embedSubtitles is called and reports success or failure
\* (no valid sidecar, both ffmpeg commands failing, a file operation failing)
PostOutcomes(langs) ==
    IF langs = <<>> THEN {"none"}
    ELSE {"noSubtitleFile", "waitThrew", "embedFailed", "embedded"}

\* where downloadVideo stands after post-processing: the per-language
\* catch and embedSubtitles' own catch absorb their errors, the error of
\* waitForFileComplete reaches the outer catch, which throws
afterPostProcessing(job, outcome) ==
    [job EXCEPT !.pc = IF outcome = "waitThrew" THEN "threw" ELSE "saving"]

\* the test after the summary line with the skipped videos left out
nothingSucceededIgnoringSkips(downloaded, skipped) == downloaded = 0

\* downloadedCount === 0 && skippedCount === 0
nothingSucceeded(downloaded, skipped) == downloaded = 0 /\ skipped = 0

\* a wrapper that puts a job whose call threw back in the queue
downloadPromiseRequeue(job, counts) ==
    IF job.pc = "returned"
    THEN [job |-> [job EXCEPT !.pc = "completed"],
          downloadedCount |-> counts.downloadedCount + 1,
          processedCount |-> counts.processedCount + 1]
    ELSE [job |-> [job EXCEPT !.pc = "queued"],
          downloadedCount |-> counts.downloadedCount,
          processedCount |-> counts.processedCount]

\* the wrapper without its catch
downloadPromiseNoCatch(job, counts) ==
    IF job.pc = "returned"
    THEN [job |-> [job EXCEPT !.pc = "completed"],
          downloadedCount |-> counts.downloadedCount + 1,
          processedCount |-> counts.processedCount + 1]
    ELSE [job |-> [job EXCEPT !.pc = "failed", !.rejected = TRUE],
          downloadedCount |-> counts.downloadedCount,
          processedCount |-> counts.processedCount]

\* the async wrapper scrapeSite puts around downloadVideo: the outcome of
\* the job and the two counters
\* downloadPromise counting a job whose call threw as downloaded
downloadPromiseCountsError(job, counts) ==
    IF job.pc = "returned"
    THEN [job |-> [job EXCEPT !.pc = "completed"],
          downloadedCount |-> counts.downloadedCount + 1,
          processedCount |-> counts.processedCount + 1]
    ELSE [job |-> [job EXCEPT !.pc = "failed"],
          downloadedCount |-> counts.downloadedCount + 1,
          processedCount |-> counts.processedCount + 1]

downloadPromise(job, counts) ==
    IF job.pc = "returned"
    THEN [job |-> [job EXCEPT !.pc = "completed"],
          downloadedCount |-> counts.downloadedCount + 1,
          processedCount |-> counts.processedCount + 1]
    ELSE [job |-> [job EXCEPT !.pc = "failed"],
          downloadedCount |-> counts.downloadedCount,
          processedCount |-> counts.processedCount + 1]

Terminal == {"completed", "failed"}

(***************************************************************************)
(* State.                                                                  *)
(***************************************************************************)
VARIABLES
    env,               \* process.env: the configuration texts
    ledger,            \* progress.csv
    writtenVideoIds,   \* module-level write-dedup set of csv/progress.ts
    completedVideos,   \* the Set<string> main loads and hands to scrapeSite
    ledgerWritable,    \* how the file system answers ledger writes
    disk,              \* the download directory
    cacheFile,         \* course-metadata-cache.json
    now,               \* Date.now()
    ticks,             \* clock steps taken
    loads,             \* the loadCourseMetadata calls of the cache harness
    savedAt,           \* when saveCourseMetadata last wrote each entry in this run
    checks,            \* the isCourseFullyDownloaded calls of the flag harness
    saves,             \* saveVideoProgress calls made by the ledger harness
    downloadOption,    \* scrapeSite's parameter: "all" or "specific"
    subtitle_langs,    \* scrapeSite's parameter: the languages asked for, <<>> for null
    runs,              \* what the earlier process runs over this course ended with
    site,              \* the units the course page shows to valid cookies
    spc,               \* where scrapeSite stands
    allVideos,         \* scrapeSite's allVideos
    selected,          \* the answer to the video selection prompt
    jobs,              \* the downloadVideo calls of this scrapeSite invocation
    nextTask,          \* position of the for loop in its queue
    activePromises,    \* scrapeSite's activePromises, as job numbers
    awaited,           \* the promises handed to Promise.race / Promise.all
    downloadedCount,
    processedCount,
    skippedCount,
    reinvokes,         \* recursive scrapeSite calls made so far
    preexisting,       \* the download directory as the run found it
    embed,             \* one embedSubtitles call: its position, locals and files
    course,            \* main's loop index i + 1 into coursesToProcess
    mainpc             \* where main stands

vars == <<env, ledger, writtenVideoIds, completedVideos, ledgerWritable, disk,
          cacheFile, now, ticks, loads, savedAt, checks, saves, downloadOption,
          subtitle_langs, runs, embed, course, mainpc, site, spc, allVideos, selected, jobs, nextTask, activePromises, awaited,
          downloadedCount, processedCount, skippedCount, reinvokes, preexisting>>

ledgerVars == <<ledger, writtenVideoIds, completedVideos, ledgerWritable, saves>>
cacheVars == <<cacheFile, now, ticks, loads, savedAt, checks>>
schedVars == <<downloadOption, subtitle_langs, runs, embed, course, mainpc, site, spc, allVideos, selected, jobs, nextTask,
               activePromises, awaited, downloadedCount, processedCount,
               skippedCount, reinvokes, preexisting>>

\* embedSubtitles has not been called.  video is what lies at videoPath
\* ("original", "empty", "muxed" or "absent"), output whether a file lies at
\* outputPath, sidecars the state of the file at each subtitle path as
\* the call found them, deleted the subtitle paths unlinked since, calls
\* the ffmpeg commands run with their outcome
NoEmbed ==
    [pc |-> "idle", video |-> "original", output |-> FALSE, sidecars |-> <<>>,
     deleted |-> {}, validSubtitlePaths |-> <<>>, calls |-> <<>>, result |-> "none"]

\* scrapeSite has not been called
NotScraping ==
    /\ course = 1
    /\ mainpc = "scrape"
    /\ downloadOption = "all"
    /\ subtitle_langs = <<>>
    /\ runs = <<>>
    /\ embed = NoEmbed
    /\ site = <<>>
    /\ spc = "idle"
    /\ allVideos = <<>>
    /\ selected = <<>>
    /\ jobs = <<>>
    /\ nextTask = 1
    /\ activePromises = {}
    /\ awaited = {}
    /\ downloadedCount = 0
    /\ processedCount = 0
    /\ skippedCount = 0
    /\ reinvokes = 0
    /\ preexisting = disk

DefaultEnv ==
    [MAX_CONCURRENT_DOWNLOADS |-> "", MAX_RETRY_ATTEMPTS |-> "",
     CACHE_TTL |-> "", NO_CACHE |-> ""]

(***************************************************************************)
(* Course data shared by the specifications.                               *)
(***************************************************************************)
UnitTitle == "Unit"
VideoTitle == "Lesson"
Section == "Basics"

\* the title main derives for a course from the URL the user gave
CourseTitleOf(courseUrl) ==
    IF normalizeDomestikaUrl(courseUrl).url = Norm1 THEN "Ink Drawing" ELSE "Clay"

\* what the fetch tool leaves for --save-dir finalDir --save-name fileName
MediaFile(courseTitle, unitNumber, videoIndex) ==
    [dir |-> finalDirOf(courseTitle, Section, UnitTitle),
     name |-> fileNameBase(courseTitle, unitNumber, videoIndex, VideoTitle) \o <<".mp4">>,
     size |-> 1, isFile |-> TRUE]

\* entries of the download directory that are not a finished media file
EmptyFile(courseTitle, unitNumber, videoIndex) ==
    [MediaFile(courseTitle, unitNumber, videoIndex) EXCEPT !.size = 0]
SubtitleFile(courseTitle, unitNumber, videoIndex) ==
    [MediaFile(courseTitle, unitNumber, videoIndex) EXCEPT
        !.name = fileNameBase(courseTitle, unitNumber, videoIndex, VideoTitle) \o <<".es", ".srt">>]

(***************************************************************************)
(* SpecLedger: the ledger functions applied to bounded inputs.             *)
(***************************************************************************)
OldVideoRow(url, u, i, status) ==
    <<url, CourseTitleOf(url), ToStr(u), UnitTitle, ToStr(i), VideoTitle, status, Before, "0">>
OldCourseRow8(url, status) ==
    <<url, CourseTitleOf(url), "", "", "", "", status, Before>>
OldCourseRow4(url, status) == <<url, CourseTitleOf(url), status, Before>>

LedgerInits ==
    { NoFile,
      FileOf(<<H9, OldVideoRow(Norm1, 1, 1, "completed")>>),
      FileOf(<<H9, OldVideoRow(Norm1, 1, 1, "failed")>>),
      FileOf(<<H8, OldCourseRow8(Norm1, "completed")>>),
      FileOf(<<H8, OldCourseRow8(Norm1, "processing")>>),
      FileOf(<<H4, OldCourseRow4(Main1en, "Completed")>>),
      FileOf(<<H4, OldCourseRow4(Main2es, "completed")>>) }

DiskInits ==
    { {},
      {MediaFile("Clay", 1, 1)},
      {MediaFile("Ink Drawing", 1, 2)},
      {EmptyFile("Clay", 1, 1), SubtitleFile("Clay", 1, 2)} }

SaveUrls == {Norm1, Unit1es, Main2es}
SaveStatuses == {"completed", "failed"}

InitLedger ==
    /\ env = DefaultEnv
    /\ ledger \in LedgerInits
    /\ writtenVideoIds = {}
    /\ completedVideos = {}
    /\ ledgerWritable = "ok"
    /\ disk \in DiskInits
    /\ cacheFile = <<>>
    /\ now = 0
    /\ ticks = 0
    /\ loads = <<>>
    /\ savedAt = <<>>
    /\ checks = <<>>
    /\ saves = <<>>
    /\ NotScraping

\* one saveVideoProgress call
LedgerSave(url, u, i, status, retryCount) ==
    /\ Len(saves) < MaxSaves
    /\ LET st == saveVideoProgress([file |-> ledger, written |-> writtenVideoIds],
                                   ledgerWritable, url, CourseTitleOf(url),
                                   u, UnitTitle, i, VideoTitle, status, retryCount)
       IN /\ ledger' = st.file
          /\ writtenVideoIds' = st.written
    /\ saves' = Append(saves, getVideoId(url, u, i))
    /\ UNCHANGED <<env, completedVideos, ledgerWritable, disk>>
    /\ UNCHANGED cacheVars
    /\ UNCHANGED schedVars

\* one loadProgress call
LedgerLoad ==
    /\ completedVideos' = loadProgress(ledger)
    /\ completedVideos' # completedVideos
    /\ UNCHANGED <<env, ledger, writtenVideoIds, ledgerWritable, disk, saves>>
    /\ UNCHANGED cacheVars
    /\ UNCHANGED schedVars

NextLedger ==
    \/ \E url \in SaveUrls, u \in 1..1, i \in 1..2, status \in SaveStatuses, r \in 0..1 :
          LedgerSave(url, u, i, status, r)
    \/ LedgerLoad

SpecLedger == InitLedger /\ [][NextLedger]_vars


(***************************************************************************)
(* Claims checked under SpecLedger.                                        *)
(***************************************************************************)
\* the lines of the ledger that this run wrote for identity id
RowsThisRun(id) ==
    {k \in DOMAIN ledger.lines :
        /\ Len(ledger.lines[k]) = Len(H9)
        /\ ledger.lines[k][8] = ThisRun
        /\ getVideoId(ledger.lines[k][1], ParseInt(ledger.lines[k][3]),
                      ParseInt(ledger.lines[k][5])) = id}

\* C3: after one or more saveVideoProgress calls for the same video identity
\* (any surface form of the course URL, any status, any retry count) the
\* ledger holds exactly one row written in this run for that identity.
C3_IdempotentLedgerWrites ==
    \A k \in DOMAIN saves : Cardinality(RowsThisRun(saves[k])) = 1

\* C3 witness: the same identity was saved twice
C3_Witness ==
    /\ Len(saves) >= 2
    /\ saves[1] = saves[2]
    /\ Cardinality(RowsThisRun(saves[1])) = 1

Courses == {Norm1, Norm2}

\* the ledger parses to a single record, a course-level `completed` row of
\* course c (no unit number, no video index)
OnlyCourseRow(file, c) ==
    /\ file.exists
    /\ csvParseSync(file.lines).ok
    /\ Len(csvParseSync(file.lines).records) = 1
    /\ LET row == csvParseSync(file.lines).records[1] IN
          /\ rowUrl(row) # ""
          /\ normalizeDomestikaUrl(rowUrl(row)).url = c
          /\ ToLower(rowStatus(row)) = "completed"
          /\ rowUnitNumber(row) = ""
          /\ rowVideoIndex(row) = ""

\* isVideoCompleted as scrapeSite calls it for video (u, i) of course c
Completed(c, u, i, completed) ==
    isVideoCompleted(c, u, i, completed, disk, TRUE, CourseTitleOf(c), UnitTitle, VideoTitle, Section)

Probe(c, u, i) ==
    checkVideoFileExists(disk, CourseTitleOf(c), UnitTitle, u, i, VideoTitle, Section)

\* C5 as stated: with only a course-level `completed` row of course c in the
\* ledger, loadProgress yields the wildcard of c, isVideoCompleted is true for
\* every video of c and false for every video of any other course.
C5_Original ==
    \A c \in Courses :
        OnlyCourseRow(ledger, c) =>
            /\ wildcardId(c) \in loadProgress(ledger)
            /\ \A u \in 1..MaxIndex, i \in 1..MaxIndex :
                  Completed(c, u, i, loadProgress(ledger))
            /\ \A d \in Courses \ {c}, u \in 1..MaxIndex, i \in 1..MaxIndex :
                  ~Completed(d, u, i, loadProgress(ledger))

\* C5 amended: with only a course-level `completed` row of course c in the
\* ledger, loadProgress yields the wildcard of c, isVideoCompleted is true for
\* every video of c, and for a video of another course it is true exactly
\* when the filesystem probe finds that video's media file.
C5_WildcardLegacyCompatibility ==
    \A c \in Courses :
        OnlyCourseRow(ledger, c) =>
            /\ wildcardId(c) \in loadProgress(ledger)
            /\ \A u \in 1..MaxIndex, i \in 1..MaxIndex :
                  Completed(c, u, i, loadProgress(ledger))
            /\ \A d \in Courses \ {c}, u \in 1..MaxIndex, i \in 1..MaxIndex :
                  Completed(d, u, i, loadProgress(ledger)) <=> Probe(d, u, i) # {}

\* C5 witness: the wildcard of course 1 was loaded from a legacy file, no
\* file of course 1 is on disk, and a media file of course 2 is
C5_Witness ==
    /\ OnlyCourseRow(ledger, Norm1)
    /\ completedVideos = {wildcardId(Norm1)}
    /\ Completed(Norm1, 2, 3, completedVideos)
    /\ Probe(Norm1, 2, 3) = {}
    /\ Completed(Norm2, 1, 1, completedVideos)
    /\ ~Completed(Norm2, 1, 2, completedVideos)

\* the surface forms of a course's URL: main page, unit page, /course page,
\* in either locale, and the normalized URL
SurfaceForms(c) == {url \in Urls : normalizeDomestikaUrl(url).url = c}

\* the 9-cell rows of the ledger, when the file parses
VideoRows ==
    IF ledger.exists /\ csvParseSync(ledger.lines).ok
    THEN {k \in DOMAIN ledger.lines : k > 1 /\ Len(ledger.lines[k]) = Len(H9)}
    ELSE {}

\* C13: for every video saved, getVideoId gives the saved identity for the
\* same unit number and video index under every surface form of the course
\* URL, and another identity under the URLs of another course;
\* normalizeDomestikaUrl applied to its own url result returns it unchanged;
\* so every surface form finds the video in the write-dedup set and, once
\* its `completed` row is loaded from the ledger, in the completed set, and
\* finds a cache entry saved under any other surface form.
C13_VideoIdentityStability ==
    /\ \A k \in DOMAIN saves :
          LET c == saves[k][1]
              u == ParseInt(saves[k][2])
              i == ParseInt(saves[k][3])
          IN /\ \A a \in SurfaceForms(c) :
                   /\ getVideoId(a, u, i) = saves[k]
                   /\ wildcardId(a) = wildcardId(c)
                   /\ normalizeDomestikaUrl(normalizeDomestikaUrl(a).url).url =
                          normalizeDomestikaUrl(a).url
                   /\ getVideoId(a, u, i) \in writtenVideoIds
                   /\ loadCourseMetadata(
                          saveCourseMetadata(<<>>, env, now, a, <<<<TRUE>>>>, CourseTitleOf(a)),
                          env, now, c).hit
                   /\ loadCourseMetadata(
                          saveCourseMetadata(<<>>, env, now, c, <<<<TRUE>>>>, CourseTitleOf(a)),
                          env, now, a).hit
             /\ \A d \in Courses \ {c} : \A b \in SurfaceForms(d) :
                   getVideoId(b, u, i) # saves[k]
    /\ LET loaded == loadProgress(ledger) IN
          \A k \in VideoRows :
              ledger.lines[k][7] = "completed" =>
                  \A a \in SurfaceForms(normalizeDomestikaUrl(ledger.lines[k][1]).url) :
                      getVideoId(a, ParseInt(ledger.lines[k][3]), ParseInt(ledger.lines[k][5]))
                          \in loaded

\* C13 witness: a video was saved as completed and loaded again, and the
\* main page URL, the unit page URL and the /course page URL all find it
C13_Witness ==
    /\ saves # <<>>
    /\ VideoRows # {}
    /\ \A a \in {Main1en, Unit1es, Course1en, Norm1} :
          /\ getVideoId(a, 1, 2) \in writtenVideoIds
          /\ getVideoId(a, 1, 2) \in completedVideos
          /\ isVideoCompleted(a, 1, 2, completedVideos, {}, FALSE, "", "", "", "")

\* what a line of the ledger records, read by the place of its cells: eight
\* or nine cells are a row of the current layouts, four a row of the first
\* release
LineStatus(line) ==
    IF Len(line) \in {8, 9} THEN ToLower(line[7])
    ELSE IF Len(line) = 4 THEN ToLower(line[3])
    ELSE ""
LineIsVideoLevel(line) == Len(line) \in {8, 9} /\ line[3] # "" /\ line[5] # ""
LineIsCourseLevel(line) ==
    \/ Len(line) = 4
    \/ Len(line) \in {8, 9} /\ line[3] = "" /\ line[5] = ""

\* the identities for which the file holds a `completed` video-level row,
\* and the wildcards of the courses for which it holds a `completed`
\* course-level row
CompletedInLines(file) ==
    {getVideoId(file.lines[k][1], ParseInt(file.lines[k][3]), ParseInt(file.lines[k][5])) :
        k \in {n \in DOMAIN file.lines :
                  LineIsVideoLevel(file.lines[n]) /\ LineStatus(file.lines[n]) = "completed"}}
    \cup
    {wildcardId(file.lines[k][1]) :
        k \in {n \in DOMAIN file.lines :
                  LineIsCourseLevel(file.lines[n]) /\ LineStatus(file.lines[n]) = "completed"}}

WroteUnderOldHeader ==
    /\ Len(saves') > Len(saves)
    /\ ledger' # ledger
    /\ ledger.exists
    /\ ledger.lines # <<>>
    /\ ledger.lines[1] # H9

\* C23: a saveVideoProgress call that writes to an existing ledger with no
\* header or with the header of an older schema leaves the nine-column
\* header as the first line, followed by every line the file had.
C23_LegacyHeaderMigration ==
    [][WroteUnderOldHeader =>
          /\ ledger'.lines[1] = H9
          /\ Len(ledger'.lines) > Len(ledger.lines)
          /\ SubSeq(ledger'.lines, 2, Len(ledger.lines) + 1) = ledger.lines]_vars


(***************************************************************************)
(* SpecRows: saveProgress and saveVideoProgress on one ledger that starts  *)
(* absent, in any order of calls.                                          *)
(***************************************************************************)
CourseStatuses == {"processing", "failed"}

InitRows ==
    /\ env = DefaultEnv
    /\ ledger = NoFile
    /\ writtenVideoIds = {}
    /\ completedVideos = {}
    /\ ledgerWritable = "ok"
    /\ disk = {}
    /\ cacheFile = <<>>
    /\ now = 0
    /\ ticks = 0
    /\ loads = <<>>
    /\ savedAt = <<>>
    /\ checks = <<>>
    /\ saves = <<>>
    /\ NotScraping

\* one saveProgress call, as main makes it for a course
CourseSave(url, status) ==
    /\ ledger' = saveProgress(ledger, url, CourseTitleOf(url), status)
    /\ ledger' # ledger
    /\ UNCHANGED <<env, writtenVideoIds, completedVideos, ledgerWritable, disk, saves>>
    /\ UNCHANGED cacheVars
    /\ UNCHANGED schedVars

NextRows ==
    \/ NextLedger
    \/ \E url \in {Main1en, Main2es}, status \in CourseStatuses : CourseSave(url, status)

SpecRows == InitRows /\ [][NextRows]_vars

(***************************************************************************)
(* Claims checked under SpecRows.                                          *)
(***************************************************************************)
\* C36: starting from an absent ledger, after any sequence of saveProgress
\* and saveVideoProgress calls every data row of the ledger has as many
\* fields as the header line.
C36_LedgerColumnConsistency ==
    ledger.exists =>
        \A k \in DOMAIN ledger.lines : Len(ledger.lines[k]) = Len(ledger.lines[1])

\* a step of saveProgress
CourseSaveStep == ledger' # ledger /\ saves' = saves

\* C37: a saveProgress call leaves every video-level row of the ledger in
\* the file with all its fields as they were, retryCount included, also
\* when the file it finds does not parse.
C37_CourseSaveKeepsVideoRows ==
    [][CourseSaveStep =>
          \A k \in DOMAIN ledger.lines :
              (k > 1 /\ LineIsVideoLevel(ledger.lines[k])) =>
                  \E n \in DOMAIN ledger'.lines : ledger'.lines[n] = ledger.lines[k]]_vars

(***************************************************************************)
(* SpecNames: the media files the two downloadVideo functions of the       *)
(* repository leave in the download directory, for bounded titles, unit    *)
(* numbers and video indexes.                                              *)
(***************************************************************************)
\* `${index}_${vData.title.trimEnd()}`, the --output pattern given to yt-dlp
ytDlpFileName(videoIndex, videoTitle) == <<ToStr(videoIndex), "_", videoTitle>>

\* what yt-dlp leaves for --paths finalDir --output fileName
YtDlpMediaFile(courseTitle, unitNumber, videoIndex) ==
    [dir |-> finalDirOf(courseTitle, Section, UnitTitle),
     name |-> ytDlpFileName(videoIndex, VideoTitle) \o <<".mp4">>,
     size |-> 1, isFile |-> TRUE]

\* course titles, "" for null
NameTitles == {"", "Ink Drawing", "Clay"}

InitNames ==
    /\ env = DefaultEnv
    /\ ledger = NoFile
    /\ writtenVideoIds = {}
    /\ completedVideos = {}
    /\ ledgerWritable = "ok"
    /\ disk = {}
    /\ cacheFile = <<>>
    /\ now = 0
    /\ ticks = 0
    /\ loads = <<>>
    /\ savedAt = <<>>
    /\ checks = <<>>
    /\ saves = <<>>
    /\ NotScraping

\* a successful downloadVideo of downloader.ts (fetch tool N_m3u8DL-RE)
DownloadFetched(courseTitle, unitNumber, videoIndex) ==
    /\ Cardinality(disk) < MaxVideos
    /\ checkVideoFileExists(disk, courseTitle, UnitTitle, unitNumber, videoIndex,
                            VideoTitle, Section) = {}
    /\ disk' = disk \cup {MediaFile(courseTitle, unitNumber, videoIndex)}
    /\ UNCHANGED <<env, preexisting>>
    /\ UNCHANGED ledgerVars
    /\ UNCHANGED cacheVars
    /\ UNCHANGED <<downloadOption, subtitle_langs, runs, embed, course, mainpc, site, spc, allVideos,
                   selected, jobs, nextTask, activePromises, awaited, downloadedCount,
                   processedCount, skippedCount, reinvokes>>

\* a successful downloadVideo of the yt-dlp downloader
DownloadYtDlp(courseTitle, unitNumber, videoIndex) ==
    /\ Cardinality(disk) < MaxVideos
    /\ checkVideoFileExists(disk, courseTitle, UnitTitle, unitNumber, videoIndex,
                            VideoTitle, Section) = {}
    /\ disk' = disk \cup {YtDlpMediaFile(courseTitle, unitNumber, videoIndex)}
    /\ disk' # disk
    /\ UNCHANGED <<env, preexisting>>
    /\ UNCHANGED ledgerVars
    /\ UNCHANGED cacheVars
    /\ UNCHANGED <<downloadOption, subtitle_langs, runs, embed, course, mainpc, site, spc, allVideos,
                   selected, jobs, nextTask, activePromises, awaited, downloadedCount,
                   processedCount, skippedCount, reinvokes>>

NextNames ==
    \/ \E t \in NameTitles, u \in 1..MaxUnits, i \in 1..MaxIndex : DownloadFetched(t, u, i)
    \/ \E t \in NameTitles, u \in 1..MaxUnits, i \in 1..MaxIndex : DownloadYtDlp(t, u, i)

SpecNames == InitNames /\ [][NextNames]_vars

\* C38: the media file a successful downloadVideo leaves for a video is
\* found by checkVideoFileExists called with that video's course title,
\* unit title, unit number, video index, title and section, so that with an
\* empty ledger isVideoCompleted is true of the video.
C38_NamingMatchesProbe ==
    \A t \in NameTitles, u \in 1..MaxUnits, i \in 1..MaxIndex :
        \A f \in disk \cap {MediaFile(t, u, i), YtDlpMediaFile(t, u, i)} :
            /\ f \in checkVideoFileExists(disk, t, UnitTitle, u, i, VideoTitle, Section)
            /\ isVideoCompleted(Norm1, u, i, {}, disk, TRUE, t, UnitTitle, VideoTitle, Section)

\* the same of the files of downloader.ts alone
FetchedNamingMatchesProbe ==
    \A t \in NameTitles, u \in 1..MaxUnits, i \in 1..MaxIndex :
        MediaFile(t, u, i) \in disk =>
            MediaFile(t, u, i) \in checkVideoFileExists(disk, t, UnitTitle, u, i, VideoTitle, Section)

(***************************************************************************)
(* SpecEmbed: one embedSubtitles call, file operation by file operation.   *)
(* The subtitle paths are numbered; a sidecar file is missing, empty,      *)
(* unreadable, blank, not SRT or valid.                                    *)
(***************************************************************************)
SidecarKinds == {"missing", "empty", "unreadable", "blank", "notSrt", "valid"}

\* the validation loop: the paths whose file exists, is not empty, can be
\* read, is not blank and has sequence numbers and timestamps
validSubtitlePathsOf(sidecars) ==
    SelectSeq([k \in DOMAIN sidecars |-> k], LAMBDA k : sidecars[k] = "valid")

\* the function returns r (its outer catch returns false)
embedReturns(e, r) == [e EXCEPT !.pc = "done", !.result = r]

\* every variable but embed keeps its value
OnlyEmbed ==
    /\ UNCHANGED <<env, disk, preexisting>>
    /\ UNCHANGED ledgerVars
    /\ UNCHANGED cacheVars
    /\ UNCHANGED <<downloadOption, subtitle_langs, runs, course, mainpc, site, spc, allVideos,
                   selected, jobs, nextTask, activePromises, awaited, downloadedCount,
                   processedCount, skippedCount, reinvokes>>

InitEmbed ==
    /\ course = 1
    /\ mainpc = "scrape"
    /\ env = DefaultEnv
    /\ ledger = NoFile
    /\ writtenVideoIds = {}
    /\ completedVideos = {}
    /\ ledgerWritable = "ok"
    /\ disk = {}
    /\ preexisting = disk
    /\ cacheFile = <<>>
    /\ now = 0
    /\ ticks = 0
    /\ loads = <<>>
    /\ savedAt = <<>>
    /\ checks = <<>>
    /\ saves = <<>>
    /\ downloadOption = "all"
    /\ subtitle_langs = <<>>
    /\ runs = <<>>
    /\ site = <<>>
    /\ spc = "idle"
    /\ allVideos = <<>>
    /\ selected = <<>>
    /\ jobs = <<>>
    /\ nextTask = 1
    /\ activePromises = {}
    /\ awaited = {}
    /\ downloadedCount = 0
    /\ processedCount = 0
    /\ skippedCount = 0
    /\ reinvokes = 0
    /\ \E v \in {"original", "empty", "absent"}, n \in 0..MaxSubs :
          \E given \in [1..n -> SidecarKinds] :
             embed = [NoEmbed EXCEPT !.video = v, !.sidecars = given]

\* the checks of the video file, up to the wait for its size to settle
EmbedStart ==
    /\ embed.pc = "idle"
    /\ embed' = IF embed.video \in {"absent", "empty"}
                THEN embedReturns(embed, "false")
                ELSE [embed EXCEPT !.pc = "validate"]
    /\ OnlyEmbed

\* the validation of the subtitle files
Validate ==
    /\ embed.pc = "validate"
    /\ embed' = IF validSubtitlePathsOf(embed.sidecars) = <<>>
                THEN embedReturns(embed, "false")
                ELSE [embed EXCEPT !.pc = "full",
                                   !.validSubtitlePaths = validSubtitlePathsOf(embed.sidecars)]
    /\ OnlyEmbed

\* FfmpegExit running the simplified command whatever the first one did
FfmpegExitAltAlways(ok, wrote) ==
    /\ embed.pc \in {"full", "alt"}
    /\ LET ran == [embed EXCEPT !.calls = Append(embed.calls, [cmd |-> embed.pc, ok |-> ok]),
                                !.output = embed.output \/ wrote]
       IN embed' = IF embed.pc = "full" THEN [ran EXCEPT !.pc = "alt"]
                   ELSE IF ok THEN [ran EXCEPT !.pc = "verify"]
                   ELSE embedReturns(ran, "false")
    /\ OnlyEmbed

\* an ffmpeg command exits, with code 0 or not, having written a file at
\* outputPath or not: after the full command the simplified one is tried,
\* after the simplified one the error reaches the outer catch
FfmpegExit(ok, wrote) ==
    /\ embed.pc \in {"full", "alt"}
    /\ LET ran == [embed EXCEPT !.calls = Append(embed.calls, [cmd |-> embed.pc, ok |-> ok]),
                                !.output = embed.output \/ wrote]
       IN embed' = IF ok THEN [ran EXCEPT !.pc = "verify"]
                   ELSE IF embed.pc = "full" THEN [ran EXCEPT !.pc = "alt"]
                   ELSE embedReturns(ran, "false")
    /\ OnlyEmbed

\* existsSync(outputPath) and the two statSync calls
Verify ==
    /\ embed.pc = "verify"
    /\ embed' = IF embed.output THEN [embed EXCEPT !.pc = "unlink"]
                ELSE embedReturns(embed, "false")
    /\ OnlyEmbed

\* fs.unlinkSync(videoPath)
Unlink(ok) ==
    /\ embed.pc = "unlink"
    /\ embed' = IF ok THEN [embed EXCEPT !.pc = "rename", !.video = "absent"]
                ELSE embedReturns(embed, "false")
    /\ OnlyEmbed

\* fs.renameSync(outputPath, videoPath)
Rename(ok) ==
    /\ embed.pc = "rename"
    /\ embed' = IF ok THEN [embed EXCEPT !.pc = "delete", !.video = "muxed", !.output = FALSE]
                ELSE embedReturns(embed, "false")
    /\ OnlyEmbed

\* the loop unlinking the valid subtitle files: the first n are deleted, and
\* with n short of their number the next unlinkSync throws
DeleteSidecars(n) ==
    /\ embed.pc = "delete"
    /\ n \in 0..Len(embed.validSubtitlePaths)
    /\ LET gone == [embed EXCEPT !.deleted =
                        embed.deleted \cup {embed.validSubtitlePaths[k] : k \in 1..n}]
       IN embed' = IF n = Len(embed.validSubtitlePaths) THEN [gone EXCEPT !.pc = "cleanup"]
                   ELSE embedReturns(gone, "false")
    /\ OnlyEmbed

\* the deletion of the other .srt files of the same base name, its errors
\* ignored
Cleanup(ok) ==
    /\ embed.pc = "cleanup"
    /\ embed' = embedReturns(
                   [embed EXCEPT !.deleted =
                       IF ok THEN {k \in DOMAIN embed.sidecars : embed.sidecars[k] # "missing"}
                       ELSE embed.deleted], "true")
    /\ OnlyEmbed

NextEmbed ==
    \/ EmbedStart
    \/ Validate
    \/ \E ok \in BOOLEAN, wrote \in BOOLEAN : FfmpegExit(ok, wrote)
    \/ Verify
    \/ \E ok \in BOOLEAN : Unlink(ok)
    \/ \E ok \in BOOLEAN : Rename(ok)
    \/ \E n \in 0..MaxSubs : DeleteSidecars(n)
    \/ \E ok \in BOOLEAN : Cleanup(ok)

SpecEmbed == InitEmbed /\ [][NextEmbed]_vars

\* both ffmpeg commands have failed
BothFailed ==
    Len(embed.calls) = 2 /\ ~embed.calls[1].ok /\ ~embed.calls[2].ok

\* C31: one embedSubtitles call runs ffmpeg at most twice, the full command
\* first and the simplified command only after the full one has failed, and
\* not at all when no subtitle file passes the validation; when both have
\* failed the call returns false, the file at videoPath is the original and
\* no subtitle file has been deleted.
C31_MuxAttempts ==
    /\ Len(embed.calls) <= 2
    /\ embed.calls # <<>> => embed.calls[1].cmd = "full"
    /\ Len(embed.calls) = 2 => ~embed.calls[1].ok /\ embed.calls[2].cmd = "alt"
    /\ (\A k \in DOMAIN embed.sidecars : embed.sidecars[k] # "valid") => embed.calls = <<>>
    /\ BothFailed =>
          /\ embed.pc = "done"
          /\ embed.result = "false"
          /\ embed.video = "original"
          /\ embed.deleted = {}

\* both commands failed in a call handed a valid and an invalid subtitle file
C31_Witness ==
    /\ BothFailed
    /\ embed.pc = "done"
    /\ \E k \in DOMAIN embed.sidecars : embed.sidecars[k] = "valid"
    /\ \E k \in DOMAIN embed.sidecars : embed.sidecars[k] # "valid"

\* C32: the muxed output replaces the original atomically: in every state
\* once ffmpeg has run, during the call and after it, whichever file
\* operation fails, a media file lies at videoPath, and a subtitle file is
\* deleted only when the muxed file is in place.
C32_AtomicReplace ==
    embed.calls # <<>> =>
        /\ embed.video \in {"original", "muxed"}
        /\ embed.deleted # {} => embed.video = "muxed"

(***************************************************************************)
(* SpecCache: the manifest cache under a clock.                            *)
(***************************************************************************)
CacheEnvs ==
    {[DefaultEnv EXCEPT !.CACHE_TTL = ttl, !.NO_CACHE = off] :
        ttl \in {"", "3", "abc"}, off \in {"", "true"}}

OldEntry == [metadata |-> <<<<TRUE>>>>, timestamp |-> 0, courseTitle |-> "Clay",
             fullyDownloaded |-> FALSE]

InitCache ==
    /\ env \in CacheEnvs
    /\ ledger = NoFile
    /\ writtenVideoIds = {}
    /\ completedVideos = {}
    /\ ledgerWritable = "ok"
    /\ disk = {}
    /\ cacheFile \in {<<>>, With(<<>>, Norm2, OldEntry)}
    /\ now = 1
    /\ ticks = 0
    /\ loads = <<>>
    /\ savedAt = <<>>
    /\ checks = <<>>
    /\ saves = <<>>
    /\ NotScraping

\* the clock advances by d milliseconds, up to two default lifetimes
Tick(d) ==
    /\ ticks < MaxTicks
    /\ d > 0
    /\ now + d <= 2 * DEFAULT_TTL_MS + MaxTicks
    /\ now' = now + d
    /\ ticks' = ticks + 1
    /\ UNCHANGED <<env, disk, cacheFile, loads, savedAt, checks>>
    /\ UNCHANGED ledgerVars
    /\ UNCHANGED schedVars

\* one saveCourseMetadata call, as scrapeSite makes it: for a course whose
\* entry this run has not written or has lost again
CacheSave(url, metadata) ==
    /\ \/ normalizeDomestikaUrl(url).url \notin DOMAIN savedAt
       \/ normalizeDomestikaUrl(url).url \notin DOMAIN cacheFile
    /\ cacheFile' = saveCourseMetadata(cacheFile, env, now, url, metadata, CourseTitleOf(url))
    /\ cacheFile' # cacheFile
    /\ savedAt' = With(savedAt, normalizeDomestikaUrl(url).url, now)
    /\ UNCHANGED <<env, disk, now, ticks, loads, checks>>
    /\ UNCHANGED ledgerVars
    /\ UNCHANGED schedVars

\* one loadCourseMetadata call
CacheLoad(url) ==
    /\ Len(loads) < MaxLoads
    /\ LET key == normalizeDomestikaUrl(url).url
           r == loadCourseMetadata(cacheFile, env, now, url)
       IN /\ cacheFile' = r.cache
          /\ loads' = Append(loads,
                 [url |-> key, at |-> now, hit |-> r.hit,
                  savedAt |-> IF key \in DOMAIN savedAt THEN savedAt[key] ELSE NaN])
    /\ UNCHANGED <<env, disk, now, ticks, savedAt, checks>>
    /\ UNCHANGED ledgerVars
    /\ UNCHANGED schedVars

NextCache ==
    \/ \E d \in {1, getCacheTTL(env) - 1} : Tick(d)
    \/ \E url \in {Main1en, Norm2} : CacheSave(url, <<<<TRUE, TRUE>>, <<TRUE>>>>)
    \/ \E url \in {Norm1, Main2es} : CacheLoad(url)

SpecCache == InitCache /\ [][NextCache]_vars

(***************************************************************************)
(* Claims checked under SpecCache.                                         *)
(***************************************************************************)
\* C10: an entry that saveCourseMetadata saved at time T is returned by
\* loadCourseMetadata as a hit at every time with age < TTL and as a miss at
\* every time with age >= TTL (T + TTL included).
C10_CacheTtlBoundary ==
    \A k \in DOMAIN loads :
        loads[k].savedAt # NaN =>
            (loads[k].hit <=> loads[k].at - loads[k].savedAt < getCacheTTL(env))

\* C10 witness: the same saved entry is a hit at T + TTL - 1 and a miss at
\* exactly T + TTL
C10_Witness ==
    /\ Len(loads) = 2
    /\ loads[1].url = loads[2].url
    /\ loads[1].savedAt # NaN
    /\ loads[1].savedAt = loads[2].savedAt
    /\ loads[1].at = loads[1].savedAt + getCacheTTL(env) - 1
    /\ loads[1].hit
    /\ loads[2].at = loads[2].savedAt + getCacheTTL(env)
    /\ ~loads[2].hit

\* the call that a step of CacheLoad made, and the key it looked up
LoadStep == Len(loads') > Len(loads)
LoadedKey == loads'[Len(loads')].url
LoadWasHit == loads'[Len(loads')].hit
PastTtl(key) == key \in DOMAIN cacheFile /\ ~isCacheValid(cacheFile[key], env, now)

\* C30 as stated: every loadCourseMetadata call for a course whose entry is
\* past TTL returns a miss and removes exactly that entry from the cache
\* file, and a call that hits leaves the cache file as it was.
C30_Original ==
    [][LoadStep =>
          /\ PastTtl(LoadedKey) =>
                ~LoadWasHit /\ cacheFile' = Without(cacheFile, LoadedKey)
          /\ LoadWasHit => cacheFile' = cacheFile]_vars

\* C30: unless caching is disabled, a loadCourseMetadata call for a course
\* whose entry is past TTL returns a miss and removes exactly that entry,
\* every other entry staying as it was; a call that hits leaves the cache
\* file as it was; with caching disabled the call returns a miss and leaves
\* the cache file as it was, expired entries included.
C30_LazyLocalEviction ==
    [][LoadStep =>
          /\ (~isCacheDisabled(env) /\ PastTtl(LoadedKey)) =>
                /\ ~LoadWasHit
                /\ cacheFile' = Without(cacheFile, LoadedKey)
                /\ \A u \in DOMAIN cacheFile \ {LoadedKey} :
                      u \in DOMAIN cacheFile' /\ cacheFile'[u] = cacheFile[u]
          /\ LoadWasHit => cacheFile' = cacheFile
          /\ isCacheDisabled(env) => ~LoadWasHit /\ cacheFile' = cacheFile]_vars

\* C30 witness: an entry saved in this run was loaded past its TTL and is
\* gone from the cache file, while the other course's entry is still there
C30_Witness ==
    /\ ~isCacheDisabled(env)
    /\ \E k \in DOMAIN loads :
          /\ ~loads[k].hit
          /\ loads[k].savedAt # NaN
          /\ loads[k].at - loads[k].savedAt >= getCacheTTL(env)
          /\ loads[k].url \notin DOMAIN cacheFile
          /\ DOMAIN cacheFile # {}
          /\ \A u \in DOMAIN cacheFile : u # loads[k].url


(***************************************************************************)
(* SpecFlag: isCourseFullyDownloaded on a cached manifest, under a clock,  *)
(* with the cover image arriving and the course being scraped again.       *)
(***************************************************************************)
FlagEnvs ==
    { [DefaultEnv EXCEPT !.CACHE_TTL = "2"],
      [DefaultEnv EXCEPT !.CACHE_TTL = "2", !.NO_CACHE = "1"] }

\* two units of one video each, and a course page whose units hold no video
FlagManifest == <<<<TRUE>>, <<TRUE>>>>
FlagManifests == {FlagManifest, <<<<>>>>}

FlagEntry(units) ==
    [metadata |-> units, timestamp |-> 1, courseTitle |-> CourseTitleOf(Norm1),
     fullyDownloaded |-> FALSE]

\* the completed sets handed to isCourseFullyDownloaded
CompletedSets ==
    { {},
      {wildcardId(Norm1), getVideoId(Norm1, 1, 1)},
      {getVideoId(Norm1, 1, 1), getVideoId(Norm1, 2, 1)} }

InitFlag ==
    /\ env \in FlagEnvs
    /\ ledger = NoFile
    /\ writtenVideoIds = {}
    /\ completedVideos = {}
    /\ ledgerWritable = "ok"
    /\ disk \in {{}, {CoverFile(CourseTitleOf(Norm1))}}
    /\ cacheFile \in {<<>>} \cup {With(<<>>, Norm1, FlagEntry(m)) : m \in FlagManifests}
    /\ now = 1
    /\ ticks = 0
    /\ loads = <<>>
    /\ savedAt = <<>>
    /\ checks = <<>>
    /\ saves = <<>>
    /\ NotScraping

\* the entry of a course is stored, within its lifetime, and the cache is on
Cached(key) ==
    /\ ~isCacheDisabled(env)
    /\ key \in DOMAIN cacheFile
    /\ isCacheValid(cacheFile[key], env, now)

\* one isCourseFullyDownloaded call
FlagCheck(url, completed) ==
    /\ Len(checks) < MaxChecks
    /\ LET key == normalizeDomestikaUrl(url).url
           r == isCourseFullyDownloaded(cacheFile, env, now, url, completed, disk)
           stored == key \in DOMAIN cacheFile
       IN /\ cacheFile' = r.cache
          /\ checks' = Append(checks,
                 [url |-> key, at |-> now, completed |-> completed,
                  cached |-> Cached(key),
                  videos |-> IF stored
                             THEN {getVideoId(key, v.unitNumber, v.videoIndex) :
                                      v \in Range(videosOf(cacheFile[key].metadata, 1))}
                             ELSE {},
                  hasCover |-> stored /\ coverImageExists(disk, cacheFile[key].courseTitle),
                  stamp |-> IF stored THEN cacheFile[key].timestamp ELSE NaN,
                  flagBefore |-> stored /\ cacheFile[key].fullyDownloaded,
                  result |-> r.result,
                  flagAfter |-> key \in DOMAIN r.cache /\ r.cache[key].fullyDownloaded])
    /\ UNCHANGED <<env, disk, now, ticks, loads, savedAt>>
    /\ UNCHANGED ledgerVars
    /\ UNCHANGED schedVars

\* downloadCoverImage has written the cover into the course folder
CoverAppears ==
    /\ ~coverImageExists(disk, CourseTitleOf(Norm1))
    /\ disk' = disk \cup {CoverFile(CourseTitleOf(Norm1))}
    /\ UNCHANGED <<env, cacheFile, now, ticks, loads, savedAt, checks>>
    /\ UNCHANGED ledgerVars
    /\ UNCHANGED <<downloadOption, subtitle_langs, runs, embed, course, mainpc, site, spc, allVideos, selected, jobs, nextTask,
                   activePromises, awaited, downloadedCount, processedCount,
                   skippedCount, reinvokes, preexisting>>

\* scrapeSite finds no usable entry, scrapes the course page and caches the
\* manifest
FlagRescrape(url, units) ==
    /\ LET r == loadCourseMetadata(cacheFile, env, now, url) IN
          /\ ~r.hit
          /\ cacheFile' = saveCourseMetadata(r.cache, env, now, url, units, CourseTitleOf(url))
    /\ cacheFile' # cacheFile
    /\ savedAt' = With(savedAt, normalizeDomestikaUrl(url).url, now)
    /\ UNCHANGED <<env, disk, now, ticks, loads, checks>>
    /\ UNCHANGED ledgerVars
    /\ UNCHANGED schedVars

NextFlag ==
    \/ \E completed \in CompletedSets : FlagCheck(Unit1es, completed)
    \/ CoverAppears
    \/ Tick(1)
    \/ FlagRescrape(Main1en, FlagManifest)

SpecFlag == InitFlag /\ [][NextFlag]_vars

(***************************************************************************)
(* Claims checked under SpecFlag.                                          *)
(***************************************************************************)
\* C11: for a cached manifest with videos, all of them in the completed set
\* supplied, and the flag not yet stored, isCourseFullyDownloaded answers
\* true and stores fullyDownloaded = true exactly when the cover image is
\* present; a call never turns the flag on without the cover image and all
\* videos completed.
C11_FlagRequiresCover ==
    \A k \in DOMAIN checks :
        LET c == checks[k] IN
           /\ (c.cached /\ ~c.flagBefore /\ c.videos # {} /\ c.videos \subseteq c.completed) =>
                  /\ c.result <=> c.hasCover
                  /\ c.flagAfter <=> c.hasCover
           /\ (~c.flagBefore /\ c.flagAfter) =>
                  /\ c.hasCover
                  /\ c.videos # {}
                  /\ c.videos \subseteq c.completed

\* C11 witness: with every video completed the first call answered false
\* and stored nothing while the cover was absent, and after the cover had
\* appeared the next call answered true and stored the flag
C11_Witness ==
    /\ Len(checks) >= 2
    /\ checks[1].cached /\ checks[2].cached
    /\ checks[1].videos # {} /\ checks[1].videos \subseteq checks[1].completed
    /\ checks[2].completed = checks[1].completed
    /\ ~checks[1].hasCover /\ ~checks[1].result /\ ~checks[1].flagAfter
    /\ checks[2].hasCover /\ checks[2].result /\ checks[2].flagAfter

\* C12 as stated: once a call has stored the flag for a course, every later
\* call for that course answers true, whatever completed set is supplied.
C12_Original ==
    \A k \in DOMAIN checks, n \in DOMAIN checks :
        (k < n /\ ~checks[k].flagBefore /\ checks[k].flagAfter /\ checks[n].url = checks[k].url)
            => checks[n].result

\* C12 amended: once a call has stored the flag for a course, every later
\* call for that course made while that cache entry is still stored and
\* younger than the lifetime answers true, whatever completed set is
\* supplied; a call made when the entry has reached its lifetime answers
\* false.
C12_FlagShortCircuit ==
    \A k \in DOMAIN checks, n \in DOMAIN checks :
        (k < n /\ ~checks[k].flagBefore /\ checks[k].flagAfter /\ checks[n].url = checks[k].url)
            => /\ (checks[n].stamp = checks[k].stamp /\ checks[n].at - checks[n].stamp < getCacheTTL(env))
                      => checks[n].result /\ checks[n].flagAfter
               /\ (checks[n].stamp # NaN /\ checks[n].at - checks[n].stamp >= getCacheTTL(env))
                      => ~checks[n].result

\* C12 witness: the flag was stored by one call, and the next call answered
\* true on an empty completed set
C12_Witness ==
    /\ Len(checks) >= 2
    /\ ~checks[1].flagBefore /\ checks[1].flagAfter
    /\ checks[2].stamp = checks[1].stamp
    /\ checks[2].completed = {}
    /\ checks[2].result

(***************************************************************************)
(* scrapeSite for one course.  The steps of downloadVideo calls run only   *)
(* while scrapeSite is suspended in an await: between two awaits its code  *)
(* runs to completion.                                                     *)
(***************************************************************************)
\* main hands scrapeSite the normalized URL and the title taken from it
\* coursesToProcess as the user gave it; the specifications of one
\* scrapeSite call stay on its first course
coursesToProcess == <<Main1en, Main2es>>
CourseUrl == normalizeDomestikaUrl(coursesToProcess[course]).url
CourseTitle == normalizeDomestikaUrl(coursesToProcess[course]).courseTitle

\* a course page with the given numbers of videos per unit; broken marks the
\* first video of the first unit as lacking its playbackURL
ManifestOf(counts, broken) ==
    [k \in DOMAIN counts |-> [a \in 1..counts[k] |-> ~(broken /\ k = 1 /\ a = 1)]]

\* n units: one video in each but the last, which has the rest
CountsOf(n) == [k \in 1..n |-> IF k < n THEN 1 ELSE MaxVideos - (n - 1)]

Manifests ==
    {ManifestOf(CountsOf(n), broken) : n \in 1..MaxUnits, broken \in BOOLEAN}

isVideoCompletedNow(video) ==
    isVideoCompleted(CourseUrl, video.unitNumber, video.videoIndex, completedVideos, disk, TRUE, CourseTitle, UnitTitle, VideoTitle, Section)

probeNow(video) ==
    checkVideoFileExists(disk, CourseTitle, UnitTitle, video.unitNumber, video.videoIndex, VideoTitle, Section) # {}

queuedTask(video) ==
    [unitNumber |-> video.unitNumber, videoIndex |-> video.videoIndex,
     pc |-> "queued", existingFile |-> FALSE, retryCount |-> 0, trace |-> <<>>,
     rejected |-> FALSE]

\* the locals of a fresh scrapeSite invocation
FreshInvocation ==
    /\ allVideos' = <<>>
    /\ selected' = <<>>
    /\ jobs' = <<>>
    /\ nextTask' = 1
    /\ activePromises' = {}
    /\ awaited' = {}
    /\ downloadedCount' = 0
    /\ processedCount' = 0
    /\ skippedCount' = 0

\* cache lookup, and on a miss the scrape of the course page: with units
\* found the manifest is cached; with none the user is asked whether to
\* refresh the cookies and scrapeSite calls itself or throws
LoadManifest ==
    /\ spc = "start"
    /\ LET cached == loadCourseMetadata(cacheFile, env, now, CourseUrl)
           proceed == IF downloadOption = "specific" THEN "select" ELSE "build"
       IN IF cached.hit
          THEN /\ allVideos' = cached.metadata
               /\ cacheFile' = cached.cache
               /\ spc' = proceed
               /\ UNCHANGED reinvokes
          ELSE \/ /\ allVideos' = site             \* the page shows its units
                  /\ cacheFile' = saveCourseMetadata(cached.cache, env, now, CourseUrl, site, CourseTitle)
                  /\ spc' = proceed
                  /\ UNCHANGED reinvokes
               \/ /\ cacheFile' = cached.cache     \* units.length === 0
                  /\ UNCHANGED allVideos
                  /\ \E updateCookies \in BOOLEAN :
                        IF updateCookies
                        THEN /\ reinvokes < MaxReinvoke
                             /\ reinvokes' = reinvokes + 1
                             /\ spc' = "start"
                        ELSE /\ spc' = "noCookies"
                             /\ UNCHANGED reinvokes
    /\ UNCHANGED <<env, disk, now, ticks, loads, savedAt, checks, downloadOption, subtitle_langs, runs, embed, course, mainpc,
                   site, selected, jobs, nextTask, activePromises, awaited,
                   downloadedCount, processedCount, skippedCount, preexisting>>
    /\ UNCHANGED ledgerVars

\* the count of already completed videos and the download queue
BuildQueue ==
    /\ spc = "build"
    /\ LET videos == videosOf(allVideos, 1)
           queueable(v) == v.playbackURL /\ ~isVideoCompletedNow(v)
           downloadQueue == SelectSeq(videos, queueable)
       IN /\ skippedCount' = Cardinality({k \in DOMAIN videos : isVideoCompletedNow(videos[k])})
          /\ jobs' = [k \in DOMAIN downloadQueue |-> queuedTask(downloadQueue[k])]
    /\ nextTask' = 1
    /\ activePromises' = {}
    /\ spc' = "loop"
    /\ UNCHANGED <<env, disk, downloadOption, subtitle_langs, runs, embed, course, mainpc, site, allVideos, selected, awaited,
                   downloadedCount, processedCount, reinvokes, preexisting>>
    /\ UNCHANGED ledgerVars
    /\ UNCHANGED cacheVars

\* Admit taking any task still queued instead of the next of the queue
AdmitAnyQueued ==
    /\ spc = "loop"
    /\ nextTask <= Len(jobs)
    /\ ~slotsFull(activePromises, env)
    /\ \E t \in DOMAIN jobs :
          /\ jobs[t].pc = "queued"
          /\ jobs' = [jobs EXCEPT ![t] =
                         startDownloadVideo([unitNumber |-> jobs[t].unitNumber,
                                             videoIndex |-> jobs[t].videoIndex,
                                             playbackURL |-> TRUE],
                                            probeNow(jobs[t]))]
          /\ activePromises' = activePromises \cup {t}
    /\ nextTask' = nextTask + 1
    /\ UNCHANGED <<env, disk, downloadOption, subtitle_langs, runs, embed, course, mainpc, site, spc, allVideos, selected,
                   awaited, downloadedCount, processedCount, skippedCount,
                   reinvokes, preexisting>>
    /\ UNCHANGED ledgerVars
    /\ UNCHANGED cacheVars

\* the for loop starts the next task: downloadVideo runs up to its first
\* await, the probe made, and the promise joins activePromises
Admit ==
    /\ spc = "loop"
    /\ nextTask <= Len(jobs)
    /\ ~slotsFull(activePromises, env)
    /\ jobs' = [jobs EXCEPT ![nextTask] =
                   startDownloadVideo([unitNumber |-> jobs[nextTask].unitNumber,
                                       videoIndex |-> jobs[nextTask].videoIndex,
                                       playbackURL |-> TRUE],
                                      probeNow(jobs[nextTask]))]
    /\ activePromises' = activePromises \cup {nextTask}
    /\ nextTask' = nextTask + 1
    /\ UNCHANGED <<env, disk, downloadOption, subtitle_langs, runs, embed, course, mainpc, site, spc, allVideos, selected,
                   awaited, downloadedCount, processedCount, skippedCount,
                   reinvokes, preexisting>>
    /\ UNCHANGED ledgerVars
    /\ UNCHANGED cacheVars

\* no free slot: await Promise.race(Array.from(activePromises))
Block ==
    /\ spc = "loop"
    /\ nextTask <= Len(jobs)
    /\ slotsFull(activePromises, env)
    /\ awaited' = activePromises
    /\ spc' = "race"
    /\ UNCHANGED <<env, disk, downloadOption, subtitle_langs, runs, embed, course, mainpc, site, allVideos, selected, jobs,
                   nextTask, activePromises, downloadedCount, processedCount,
                   skippedCount, reinvokes, preexisting>>
    /\ UNCHANGED ledgerVars
    /\ UNCHANGED cacheVars

\* Wake only when the oldest awaited promise has settled
WakeOldestFirst ==
    /\ spc = "race"
    /\ \E j \in awaited :
          /\ \A o \in awaited : j <= o
          /\ jobs[j].pc \in Terminal
          /\ j \notin activePromises
          /\ spc' = IF jobs[j].rejected THEN "rejected" ELSE "loop"
    /\ awaited' = {}
    /\ UNCHANGED <<env, disk, downloadOption, subtitle_langs, runs, embed, course, mainpc, site, allVideos, selected, jobs,
                   nextTask, activePromises, downloadedCount, processedCount,
                   skippedCount, reinvokes, preexisting>>
    /\ UNCHANGED ledgerVars
    /\ UNCHANGED cacheVars

\* the race settles with a settled promise.  The promise's finally handler
\* was registered before the race, so by now it has removed the promise
Wake ==
    /\ spc = "race"
    /\ \E j \in awaited :
          /\ jobs[j].pc \in Terminal
          /\ j \notin activePromises
          /\ spc' = IF jobs[j].rejected THEN "rejected" ELSE "loop"
    /\ awaited' = {}
    /\ UNCHANGED <<env, disk, downloadOption, subtitle_langs, runs, embed, course, mainpc, site, allVideos, selected, jobs,
                   nextTask, activePromises, downloadedCount, processedCount,
                   skippedCount, reinvokes, preexisting>>
    /\ UNCHANGED ledgerVars
    /\ UNCHANGED cacheVars

\* the queue is exhausted: await Promise.all(Array.from(activePromises))
EndLoop ==
    /\ spc = "loop"
    /\ nextTask > Len(jobs)
    /\ awaited' = activePromises
    /\ spc' = "join"
    /\ UNCHANGED <<env, disk, downloadOption, subtitle_langs, runs, embed, course, mainpc, site, allVideos, selected, jobs,
                   nextTask, activePromises, downloadedCount, processedCount,
                   skippedCount, reinvokes, preexisting>>
    /\ UNCHANGED ledgerVars
    /\ UNCHANGED cacheVars

\* Promise.all settles: rejected with the first rejection, fulfilled when
\* every promise is
Join ==
    /\ spc = "join"
    /\ IF \E j \in awaited : jobs[j].rejected
       THEN spc' = "rejected"
       ELSE /\ \A j \in awaited : jobs[j].pc \in Terminal /\ j \notin activePromises
            /\ spc' = "summary"
    /\ awaited' = {}
    /\ UNCHANGED <<env, disk, downloadOption, subtitle_langs, runs, embed, course, mainpc, site, allVideos, selected, jobs,
                   nextTask, activePromises, downloadedCount, processedCount,
                   skippedCount, reinvokes, preexisting>>
    /\ UNCHANGED ledgerVars
    /\ UNCHANGED cacheVars

\* the summary line; when nothing was downloaded or skipped the user is
\* asked whether to update the cookies
Summary ==
    /\ spc = "summary"
    /\ spc' = IF nothingSucceeded(downloadedCount, skippedCount) THEN "offer" ELSE "done"
    /\ UNCHANGED <<env, disk, downloadOption, subtitle_langs, runs, embed, course, mainpc, site, allVideos, selected, jobs,
                   nextTask, activePromises, awaited, downloadedCount, processedCount,
                   skippedCount, reinvokes, preexisting>>
    /\ UNCHANGED ledgerVars
    /\ UNCHANGED cacheVars

\* the answer to the prompt: scrapeSite calls itself with fresh cookies, or
\* goes on to its end
AnswerOffer(updateCookies) ==
    /\ spc = "offer"
    /\ IF updateCookies
       THEN /\ reinvokes < MaxReinvoke
            /\ reinvokes' = reinvokes + 1
            /\ spc' = "start"
            /\ FreshInvocation
       ELSE /\ spc' = "done"
            /\ UNCHANGED <<allVideos, selected, jobs, nextTask, activePromises,
                           awaited, downloadedCount, processedCount,
                           skippedCount, reinvokes>>
    /\ UNCHANGED <<env, disk, downloadOption, subtitle_langs, runs, embed, course, mainpc, site, preexisting>>
    /\ UNCHANGED ledgerVars
    /\ UNCHANGED cacheVars


(***************************************************************************)
(* The steps of one downloadVideo call.                                    *)
(***************************************************************************)
JobsRun == spc \in {"race", "join", "call"}

saveJob(j, status, retryCount) ==
    saveVideoProgress([file |-> ledger, written |-> writtenVideoIds], ledgerWritable, CourseUrl, CourseTitle, jobs[j].unitNumber, UnitTitle, jobs[j].videoIndex, VideoTitle, status, retryCount)

jobVideoId(j) == getVideoId(CourseUrl, jobs[j].unitNumber, jobs[j].videoIndex)

\* after the probe: an existing file is recorded as completed and the call
\* returns, otherwise the 1080p run of the fetch tool starts
JobAfterProbe(j) ==
    /\ JobsRun
    /\ jobs[j].pc = "probed"
    /\ IF jobs[j].existingFile
       THEN /\ ledger' = saveJob(j, "completed", 0).file
            /\ writtenVideoIds' = saveJob(j, "completed", 0).written
            /\ completedVideos' = completedVideos \cup {jobVideoId(j)}
            /\ jobs' = [jobs EXCEPT ![j].pc = "returned"]
       ELSE /\ jobs' = [jobs EXCEPT ![j].pc = "tier1"]
            /\ UNCHANGED <<ledger, writtenVideoIds, completedVideos>>
    /\ UNCHANGED <<env, ledgerWritable, saves, disk, downloadOption, subtitle_langs, runs, embed, course, mainpc, site, spc,
                   allVideos, selected, nextTask, activePromises, awaited,
                   downloadedCount, processedCount, skippedCount, reinvokes,
                   preexisting>>
    /\ UNCHANGED cacheVars

\* the fetch tool exits; when the retries are used up the failed row is
\* written and the error thrown
ToolExit(j, ok) ==
    /\ JobsRun
    /\ jobs[j].pc \in {"tier1", "tier2"}
    /\ LET job == onToolExit(jobs[j], ok, getMaxRetryAttempts(env)) IN
          /\ jobs' = [jobs EXCEPT ![j] = job]
          /\ disk' = IF ok THEN disk \cup {MediaFile(CourseTitle, job.unitNumber, job.videoIndex)}
                     ELSE disk
          /\ IF job.pc = "threw"
             THEN /\ ledger' = saveJob(j, "failed", job.retryCount).file
                  /\ writtenVideoIds' = saveJob(j, "failed", job.retryCount).written
             ELSE UNCHANGED <<ledger, writtenVideoIds>>
    /\ UNCHANGED <<env, completedVideos, ledgerWritable, saves, downloadOption, subtitle_langs, runs, embed, course, mainpc,
                   site, spc, allVideos, selected, nextTask, activePromises,
                   awaited, downloadedCount, processedCount, skippedCount,
                   reinvokes, preexisting>>
    /\ UNCHANGED cacheVars

\* the backoff timer fires
WaitElapsed(j) ==
    /\ JobsRun
    /\ jobs[j].pc = "wait"
    /\ jobs' = [jobs EXCEPT ![j] = afterWait(jobs[j], getMaxRetryAttempts(env))]
    /\ UNCHANGED <<env, disk, downloadOption, subtitle_langs, runs, embed, course, mainpc, site, spc, allVideos, selected,
                   nextTask, activePromises, awaited, downloadedCount,
                   processedCount, skippedCount, reinvokes, preexisting>>
    /\ UNCHANGED ledgerVars
    /\ UNCHANGED cacheVars

\* post-processing runs; unless it throws, the completed row is written
\* with the retry count and the call returns
PostDone(j, outcome) ==
    /\ JobsRun
    /\ jobs[j].pc = "post"
    /\ outcome \in PostOutcomes(subtitle_langs)
    /\ LET job == afterPostProcessing(jobs[j], outcome) IN
          IF job.pc = "saving"
          THEN /\ ledger' = saveJob(j, "completed", jobs[j].retryCount).file
               /\ writtenVideoIds' = saveJob(j, "completed", jobs[j].retryCount).written
               /\ completedVideos' = completedVideos \cup {jobVideoId(j)}
               /\ jobs' = [jobs EXCEPT ![j].pc = "returned"]
               /\ disk' = disk
          ELSE /\ jobs' = [jobs EXCEPT ![j] = job]
               /\ disk' = disk \ {MediaFile(CourseTitle, job.unitNumber, job.videoIndex)}
               /\ UNCHANGED <<ledger, writtenVideoIds, completedVideos>>
    /\ UNCHANGED <<env, ledgerWritable, saves, downloadOption, subtitle_langs, runs, embed, course, mainpc, site, spc,
                   allVideos, selected, nextTask, activePromises, awaited,
                   downloadedCount, processedCount, skippedCount, reinvokes,
                   preexisting>>
    /\ UNCHANGED cacheVars

\* Settle with the flag flip of isCourseFullyDownloaded called at the end of
\* every job: the cache file is rewritten while jobs run
SettleFlagsCache(j) ==
    /\ spc \in {"race", "join"}
    /\ jobs[j].pc \in {"returned", "threw"}
    /\ LET r == downloadPromise(jobs[j], [downloadedCount |-> downloadedCount,
                                         processedCount |-> processedCount])
       IN /\ jobs' = [jobs EXCEPT ![j] = r.job]
          /\ downloadedCount' = r.downloadedCount
          /\ processedCount' = r.processedCount
    /\ activePromises' = activePromises \ {j}
    /\ cacheFile' = IF CourseUrl \in DOMAIN cacheFile
                    THEN [cacheFile EXCEPT ![CourseUrl].fullyDownloaded = TRUE]
                    ELSE cacheFile
    /\ UNCHANGED <<env, disk, downloadOption, subtitle_langs, runs, embed, course, mainpc, site, spc, allVideos, selected,
                   nextTask, awaited, skippedCount, reinvokes, preexisting>>
    /\ UNCHANGED ledgerVars
    /\ UNCHANGED <<now, ticks, loads, savedAt, checks>>

\* the wrapper of the scheduler resumes after downloadVideo and settles its
\* promise, whose finally handler takes it out of activePromises
Settle(j) ==
    /\ spc \in {"race", "join"}
    /\ jobs[j].pc \in {"returned", "threw"}
    /\ LET r == downloadPromise(jobs[j], [downloadedCount |-> downloadedCount,
                                         processedCount |-> processedCount])
       IN /\ jobs' = [jobs EXCEPT ![j] = r.job]
          /\ downloadedCount' = r.downloadedCount
          /\ processedCount' = r.processedCount
    /\ activePromises' = activePromises \ {j}
    /\ UNCHANGED <<env, disk, downloadOption, subtitle_langs, runs, embed, course, mainpc, site, spc, allVideos, selected,
                   nextTask, awaited, skippedCount, reinvokes, preexisting>>
    /\ UNCHANGED ledgerVars
    /\ UNCHANGED cacheVars

(***************************************************************************)
(* Spec: main has loaded the ledger, written the course's `processing`     *)
(* row and calls scrapeSite with downloadOption 'all'.                     *)
(***************************************************************************)
SchedEnvs ==
    {[DefaultEnv EXCEPT !.MAX_CONCURRENT_DOWNLOADS = c, !.MAX_RETRY_ATTEMPTS = "1"] :
        c \in {"1", "abc"}}

\* what main finds (progress.csv and the download directory) and the
\* subtitle languages the user picked (<<>> when none)
SchedStarts ==
    { [file |-> NoFile, disk |-> {}, langs |-> <<>>],
      [file |-> NoFile, disk |-> {MediaFile(CourseTitle, 1, 1)}, langs |-> <<"es">>],
      [file |-> NoFile,
       disk |-> {EmptyFile(CourseTitle, 1, 1), SubtitleFile(CourseTitle, 1, 2)},
       langs |-> <<>>],
      [file |-> FileOf(<<H9, OldVideoRow(Norm1, 1, 2, "completed")>>), disk |-> {},
       langs |-> <<>>],
      [file |-> FileOf(<<H4, OldCourseRow4(Main1en, "Completed")>>), disk |-> {},
       langs |-> <<>>] }

CachedManifest(units) ==
    With(<<>>, Norm1, [metadata |-> units, timestamp |-> 1,
                       courseTitle |-> CourseTitle, fullyDownloaded |-> FALSE])

InitScrape(option) ==
    /\ writtenVideoIds = {}
    /\ preexisting = disk
    /\ site \in Manifests
    /\ cacheFile \in {<<>>, CachedManifest(site)}
    /\ now = 1
    /\ ticks = 0
    /\ loads = <<>>
    /\ savedAt = <<>>
    /\ checks = <<>>
    /\ saves = <<>>
    /\ downloadOption = option
    /\ runs = <<>>
    /\ embed = NoEmbed
    /\ spc = "start"
    /\ allVideos = <<>>
    /\ selected = <<>>
    /\ jobs = <<>>
    /\ nextTask = 1
    /\ activePromises = {}
    /\ awaited = {}
    /\ downloadedCount = 0
    /\ processedCount = 0
    /\ skippedCount = 0
    /\ reinvokes = 0

Init ==
    /\ course = 1
    /\ mainpc = "scrape"
    /\ env \in SchedEnvs
    /\ \E start \in SchedStarts :
          /\ completedVideos = loadProgress(start.file)
          /\ ledger = saveProgress(start.file, CourseUrl, CourseTitle, "processing")
          /\ disk = start.disk
          /\ subtitle_langs = start.langs
    /\ ledgerWritable = "ok"
    /\ InitScrape("all")

Next ==
    \/ LoadManifest
    \/ BuildQueue
    \/ Admit
    \/ Block
    \/ Wake
    \/ EndLoop
    \/ Join
    \/ Summary
    \/ \E updateCookies \in BOOLEAN : AnswerOffer(updateCookies)
    \/ \E j \in DOMAIN jobs : JobAfterProbe(j)
    \/ \E j \in DOMAIN jobs, ok \in BOOLEAN : ToolExit(j, ok)
    \/ \E j \in DOMAIN jobs : WaitElapsed(j)
    \/ \E j \in DOMAIN jobs, outcome \in PostOutcomes(subtitle_langs) : PostDone(j, outcome)
    \/ \E j \in DOMAIN jobs : Settle(j)

Spec == Init /\ [][Next]_vars

(***************************************************************************)
(* SpecResume: the process ends when scrapeSite has returned, and main is  *)
(* started again for the same course: a new process, with the files of     *)
(* the old one.                                                            *)
(***************************************************************************)
ResumeEnvs ==
    {[DefaultEnv EXCEPT !.MAX_CONCURRENT_DOWNLOADS = "1", !.MAX_RETRY_ATTEMPTS = "1"]}

InitResume ==
    /\ course = 1
    /\ mainpc = "scrape"
    /\ env \in ResumeEnvs
    /\ \E start \in SchedStarts :
          /\ completedVideos = loadProgress(start.file)
          /\ ledger = saveProgress(start.file, CourseUrl, CourseTitle, "processing")
          /\ disk = start.disk
          /\ subtitle_langs = start.langs
    /\ ledgerWritable = "ok"
    /\ InitScrape("all")

\* what a process run ended with
RunRecord ==
    [queued |-> Len(jobs),
     everyJobCompleted |-> \A j \in DOMAIN jobs : jobs[j].pc = "completed",
     downloaded |-> downloadedCount,
     skipped |-> skippedCount]

\* the process has ended; main runs again: the module state of
\* csv/progress.ts is new, loadProgress reads the ledger the old process
\* left, saveProgress rewrites it, scrapeSite is called for the same course
Restart ==
    /\ spc = "done"
    /\ Len(runs) < MaxRestarts
    /\ runs' = Append(runs, RunRecord)
    /\ writtenVideoIds' = {}
    /\ completedVideos' = loadProgress(ledger)
    /\ ledger' = saveProgress(ledger, CourseUrl, CourseTitle, "processing")
    /\ preexisting' = disk
    /\ reinvokes' = 0
    /\ spc' = "start"
    /\ FreshInvocation
    /\ UNCHANGED <<env, ledgerWritable, saves, disk, downloadOption, subtitle_langs, site,
                   embed, course, mainpc>>
    /\ UNCHANGED cacheVars

NextResume ==
    \/ Next
    \/ Restart

SpecResume == InitResume /\ [][NextResume]_vars

(***************************************************************************)
(* SpecLive: the scheduler under the event loop's scheduling.  A           *)
(* continuation that can run does run; every run of the fetch tool exits   *)
(* and every backoff timer fires.  The user is not obliged to answer the   *)
(* prompt.                                                                 *)
(***************************************************************************)
\* ceilings: a valid one (with a retry, so that a backoff wait happens), a
\* text that is no number, a non-positive one
LiveEnvs ==
    { [DefaultEnv EXCEPT !.MAX_CONCURRENT_DOWNLOADS = "1", !.MAX_RETRY_ATTEMPTS = "2"],
      [DefaultEnv EXCEPT !.MAX_CONCURRENT_DOWNLOADS = "abc", !.MAX_RETRY_ATTEMPTS = "1"],
      [DefaultEnv EXCEPT !.MAX_CONCURRENT_DOWNLOADS = "0", !.MAX_RETRY_ATTEMPTS = "1"] }

\* courses of one unit; InitScrape keeps those that are in Manifests
LiveManifests == {ManifestOf(<<n>>, FALSE) : n \in 1..MaxVideos}

InitLive ==
    /\ course = 1
    /\ mainpc = "scrape"
    /\ env \in LiveEnvs
    /\ completedVideos = loadProgress(NoFile)
    /\ ledger = saveProgress(NoFile, CourseUrl, CourseTitle, "processing")
    /\ disk = {}
    /\ subtitle_langs = <<>>
    /\ site \in LiveManifests
    /\ cacheFile = <<>>
    /\ ledgerWritable = "ok"
    /\ InitScrape("all")

\* the next step of downloadVideo call j or of its wrapper
JobStep(j) ==
    /\ j \in DOMAIN jobs
    /\ \/ JobAfterProbe(j)
       \/ \E ok \in BOOLEAN : ToolExit(j, ok)
       \/ WaitElapsed(j)
       \/ \E outcome \in PostOutcomes(subtitle_langs) : PostDone(j, outcome)
       \/ Settle(j)

\* the steps of scrapeSite itself, the prompt's answer apart
SchedulerStep ==
    \/ LoadManifest
    \/ BuildQueue
    \/ Admit
    \/ Block
    \/ Wake
    \/ EndLoop
    \/ Join
    \/ Summary

EventLoop ==
    /\ WF_vars(SchedulerStep)
    /\ \A j \in 1..MaxVideos : WF_vars(JobStep(j))

SpecLive == InitLive /\ [][Next]_vars /\ EventLoop

(***************************************************************************)
(* SpecMain: main from its start to the end of the process, over two       *)
(* courses downloaded whole.  scrapeSite runs inside main's await; between *)
(* two courses no scrapeSite call is open.                                 *)
(*   mainpc: init, loop (top of the for loop), scrape (awaiting            *)
(*   scrapeSite), reports, exit0, exit1.                                   *)
(***************************************************************************)
MainEnvs ==
    { [DefaultEnv EXCEPT !.MAX_CONCURRENT_DOWNLOADS = "abc", !.MAX_RETRY_ATTEMPTS = "1"],
      [DefaultEnv EXCEPT !.MAX_CONCURRENT_DOWNLOADS = "1", !.MAX_RETRY_ATTEMPTS = "2"] }

\* progress.csv as main finds it: absent, or left by the first release with
\* the first course marked as done
MainStarts ==
    { NoFile,
      FileOf(<<H4, OldCourseRow4(Main1en, "Completed")>>) }

\* how scrapeSite ends: "done" is its return, the others are errors thrown
ScrapeOver == {"done", "noCookies", "thrown", "rejected"}

InitMain ==
    /\ course = 1
    /\ mainpc = "init"
    /\ env \in MainEnvs
    /\ ledger \in MainStarts
    /\ writtenVideoIds = {}
    /\ completedVideos = {}
    /\ ledgerWritable = "ok"
    /\ saves = <<>>
    /\ disk = {}
    /\ preexisting = disk
    /\ cacheFile = <<>>
    /\ now = 1
    /\ ticks = 0
    /\ loads = <<>>
    /\ savedAt = <<>>
    /\ checks = <<>>
    /\ downloadOption = "all"
    /\ subtitle_langs = <<>>
    /\ runs = <<>>
    /\ embed = NoEmbed
    /\ site = ManifestOf(<<MaxVideos>>, FALSE)
    /\ spc = "idle"
    /\ allVideos = <<>>
    /\ selected = <<>>
    /\ jobs = <<>>
    /\ nextTask = 1
    /\ activePromises = {}
    /\ awaited = {}
    /\ downloadedCount = 0
    /\ processedCount = 0
    /\ skippedCount = 0
    /\ reinvokes = 0

\* the check for the fetch tool and loadProgress.  Without the tool main
\* throws; its outer catch tries the reports and calls process.exit(1)
MainInit(toolFound) ==
    /\ mainpc = "init"
    /\ IF toolFound
       THEN /\ completedVideos' = loadProgress(ledger)
            /\ mainpc' = "loop"
       ELSE /\ mainpc' = "exit1"
            /\ UNCHANGED completedVideos
    /\ UNCHANGED <<env, ledger, writtenVideoIds, ledgerWritable, saves, disk, course>>
    /\ UNCHANGED cacheVars
    /\ UNCHANGED <<downloadOption, subtitle_langs, runs, embed, site, spc, allVideos, selected, jobs,
                   nextTask, activePromises, awaited, downloadedCount, processedCount,
                   skippedCount, reinvokes, preexisting>>

\* the body of the for loop up to its await: the course-level row, then the
\* call of scrapeSite
CourseStart ==
    /\ mainpc = "loop"
    /\ course <= Len(coursesToProcess)
    /\ ledger' = saveProgress(ledger, CourseUrl, CourseTitle, "processing")
    /\ mainpc' = "scrape"
    /\ spc' = "start"
    /\ reinvokes' = 0
    /\ FreshInvocation
    /\ UNCHANGED <<env, writtenVideoIds, completedVideos, ledgerWritable, saves, disk,
                   downloadOption, subtitle_langs, runs, embed, site, preexisting, course>>
    /\ UNCHANGED cacheVars

\* CourseOver without the await: main goes on while the for loop of
\* scrapeSite still waits for a slot
CourseOverEarly ==
    /\ mainpc = "scrape"
    /\ spc \in ScrapeOver \cup {"race"}
    /\ ledger' = IF spc \in {"done", "race"} THEN ledger
                 ELSE saveProgress(ledger, CourseUrl, CourseTitle, "failed")
    /\ course' = course + 1
    /\ mainpc' = "loop"
    /\ spc' = "idle"
    /\ UNCHANGED <<env, writtenVideoIds, completedVideos, ledgerWritable, saves, disk,
                   downloadOption, subtitle_langs, runs, embed, site, allVideos, selected, jobs,
                   nextTask, activePromises, awaited, downloadedCount, processedCount,
                   skippedCount, reinvokes, preexisting>>
    /\ UNCHANGED cacheVars

\* the awaited scrapeSite call has settled: its error is caught and the
\* course marked as failed; the loop goes on with the next course
CourseOver ==
    /\ mainpc = "scrape"
    /\ spc \in ScrapeOver
    /\ ledger' = IF spc = "done" THEN ledger
                 ELSE saveProgress(ledger, CourseUrl, CourseTitle, "failed")
    /\ course' = course + 1
    /\ mainpc' = "loop"
    /\ spc' = "idle"
    /\ UNCHANGED <<env, writtenVideoIds, completedVideos, ledgerWritable, saves, disk,
                   downloadOption, subtitle_langs, runs, embed, site, allVideos, selected, jobs,
                   nextTask, activePromises, awaited, downloadedCount, processedCount,
                   skippedCount, reinvokes, preexisting>>
    /\ UNCHANGED cacheVars

\* the for loop is over
LoopEnd ==
    /\ mainpc = "loop"
    /\ course > Len(coursesToProcess)
    /\ mainpc' = "reports"
    /\ UNCHANGED <<env, disk, course>>
    /\ UNCHANGED ledgerVars
    /\ UNCHANGED cacheVars
    /\ UNCHANGED <<downloadOption, subtitle_langs, runs, embed, site, spc, allVideos, selected, jobs,
                   nextTask, activePromises, awaited, downloadedCount, processedCount,
                   skippedCount, reinvokes, preexisting>>

\* generateReportData and saveReports: main returns, or a file system error
\* of saveReports reaches main's outer catch, which calls process.exit(1)
Reports(written) ==
    /\ mainpc = "reports"
    /\ mainpc' = IF written THEN "exit0" ELSE "exit1"
    /\ UNCHANGED <<env, disk, course>>
    /\ UNCHANGED ledgerVars
    /\ UNCHANGED cacheVars
    /\ UNCHANGED <<downloadOption, subtitle_langs, runs, embed, site, spc, allVideos, selected, jobs,
                   nextTask, activePromises, awaited, downloadedCount, processedCount,
                   skippedCount, reinvokes, preexisting>>

NextMain ==
    \/ Next
    \/ \E toolFound \in BOOLEAN : MainInit(toolFound)
    \/ CourseStart
    \/ CourseOver
    \/ LoopEnd
    \/ \E written \in BOOLEAN : Reports(written)

SpecMain == InitMain /\ [][NextMain]_vars

(***************************************************************************)
(* SpecSlots: scrapeSite 'all' on a course with one video more than there  *)
(* are slots, so that a slot is freed while an older job is still in       *)
(* flight.  Only the scheduler is fair: a downloadVideo call may hang      *)
(* forever (the scheduler imposes no timeout).                             *)
(***************************************************************************)
SlotEnvs ==
    { [DefaultEnv EXCEPT !.MAX_CONCURRENT_DOWNLOADS = "2", !.MAX_RETRY_ATTEMPTS = "1"],
      [DefaultEnv EXCEPT !.MAX_CONCURRENT_DOWNLOADS = "1", !.MAX_RETRY_ATTEMPTS = "2"] }

\* courses with one video more than there are slots, in one unit or in two
SlotManifests(e) ==
    { ManifestOf(<<MAX_CONCURRENT_DOWNLOADS(e) + 1>>, FALSE),
      ManifestOf(<<1, MAX_CONCURRENT_DOWNLOADS(e)>>, FALSE) }

InitSlots ==
    /\ course = 1
    /\ mainpc = "scrape"
    /\ env \in SlotEnvs
    /\ completedVideos = loadProgress(NoFile)
    /\ ledger = saveProgress(NoFile, CourseUrl, CourseTitle, "processing")
    /\ disk = {}
    /\ subtitle_langs = <<>>
    /\ site \in SlotManifests(env)
    /\ cacheFile = <<>>
    /\ ledgerWritable = "ok"
    /\ writtenVideoIds = {}
    /\ preexisting = disk
    /\ now = 1
    /\ ticks = 0
    /\ loads = <<>>
    /\ savedAt = <<>>
    /\ checks = <<>>
    /\ saves = <<>>
    /\ downloadOption = "all"
    /\ runs = <<>>
    /\ embed = NoEmbed
    /\ spc = "start"
    /\ allVideos = <<>>
    /\ selected = <<>>
    /\ jobs = <<>>
    /\ nextTask = 1
    /\ activePromises = {}
    /\ awaited = {}
    /\ downloadedCount = 0
    /\ processedCount = 0
    /\ skippedCount = 0
    /\ reinvokes = 0

SpecSlots == InitSlots /\ [][Next]_vars /\ WF_vars(SchedulerStep)

(***************************************************************************)
(* SpecIO: scrapeSite while the file system refuses ledger writes.         *)
(***************************************************************************)
\* progress.csv as main finds it: absent, readable, or with 9-cell rows
\* under the 8-column header
IOStarts ==
    { NoFile,
      FileOf(<<H9, OldVideoRow(Norm1, 1, 2, "completed")>>),
      FileOf(<<H8, OldCourseRow8(Norm1, "processing"),
               OldVideoRow(Norm1, 1, 1, "completed")>>) }

\* main's saveProgress: its one writeFileSync fails or succeeds
InitIO ==
    /\ course = 1
    /\ mainpc = "scrape"
    /\ env \in ResumeEnvs
    /\ ledgerWritable \in WriteOutcomes
    /\ \E file \in IOStarts :
          /\ completedVideos = loadProgress(file)
          /\ ledger = IF ledgerWritable = "fails" THEN file
                      ELSE saveProgress(file, CourseUrl, CourseTitle, "processing")
    /\ disk = {}
    /\ subtitle_langs = <<>>
    /\ site \in LiveManifests
    /\ cacheFile = <<>>
    /\ InitScrape("all")

\* the file system recovers, wholly or for short writes only
FsRecovers ==
    /\ ledgerWritable # "ok"
    /\ ledgerWritable' \in {"appendFails", "ok"} \ {ledgerWritable}
    /\ UNCHANGED <<env, ledger, writtenVideoIds, completedVideos, disk, saves>>
    /\ UNCHANGED cacheVars
    /\ UNCHANGED schedVars

NextIO ==
    \/ Next
    \/ FsRecovers

SpecIO == InitIO /\ [][NextIO]_vars


(***************************************************************************)
(* SpecRetry: scrapeSite with downloadOption 'specific'.  The selected     *)
(* videos are downloaded one after the other, each downloadVideo call      *)
(* awaited directly.                                                       *)
(***************************************************************************)
\* the answer to the checkbox prompt, its unit entries expanded: one video,
\* or the videos of one unit in order
Selections(units) ==
    {<<v>> : v \in Range(videosOf(units, 1))}
        \cup {SelectSeq(videosOf(units, 1), LAMBDA v : v.unitNumber = k) : k \in DOMAIN units}

Prompt ==
    /\ spc = "select"
    /\ selected' \in Selections(allVideos)
    /\ nextTask' = 1
    /\ spc' = "iterate"
    /\ UNCHANGED <<env, disk, downloadOption, subtitle_langs, runs, embed, course, mainpc, site, allVideos, jobs,
                   activePromises, awaited, downloadedCount, processedCount,
                   skippedCount, reinvokes, preexisting>>
    /\ UNCHANGED ledgerVars
    /\ UNCHANGED cacheVars

\* SpecificNext without the isVideoCompleted test before the call
SpecificNextNoCheck ==
    /\ spc = "iterate"
    /\ IF nextTask > Len(selected)
       THEN /\ spc' = "done"
            /\ UNCHANGED <<jobs, nextTask>>
       ELSE /\ jobs' = Append(jobs, startDownloadVideo(selected[nextTask], FALSE))
            /\ spc' = "call"
            /\ UNCHANGED nextTask
    /\ UNCHANGED <<env, disk, downloadOption, subtitle_langs, runs, embed, course, mainpc, site, allVideos, selected,
                   activePromises, awaited, downloadedCount, processedCount,
                   skippedCount, reinvokes, preexisting>>
    /\ UNCHANGED ledgerVars
    /\ UNCHANGED cacheVars

\* the next selected video: skipped when already completed, else
\* downloadVideo is called and awaited
SpecificNext ==
    /\ spc = "iterate"
    /\ IF nextTask > Len(selected)
       THEN /\ spc' = "done"
            /\ UNCHANGED <<jobs, nextTask>>
       ELSE IF isVideoCompletedNow(selected[nextTask])
       THEN /\ nextTask' = nextTask + 1
            /\ UNCHANGED <<spc, jobs>>
       ELSE /\ jobs' = Append(jobs, startDownloadVideo(selected[nextTask],
                                                      probeNow(selected[nextTask])))
            /\ spc' = "call"
            /\ UNCHANGED nextTask
    /\ UNCHANGED <<env, disk, downloadOption, subtitle_langs, runs, embed, course, mainpc, site, allVideos, selected,
                   activePromises, awaited, downloadedCount, processedCount,
                   skippedCount, reinvokes, preexisting>>
    /\ UNCHANGED ledgerVars
    /\ UNCHANGED cacheVars

\* the awaited call settles: the loop goes on, or the error leaves scrapeSite
SpecificResume ==
    /\ spc = "call"
    /\ jobs[Len(jobs)].pc \in {"returned", "threw"}
    /\ IF jobs[Len(jobs)].pc = "returned"
       THEN /\ spc' = "iterate"
            /\ nextTask' = nextTask + 1
       ELSE /\ spc' = "thrown"
            /\ UNCHANGED nextTask
    /\ UNCHANGED <<env, disk, downloadOption, subtitle_langs, runs, embed, course, mainpc, site, allVideos, selected, jobs,
                   activePromises, awaited, downloadedCount, processedCount,
                   skippedCount, reinvokes, preexisting>>
    /\ UNCHANGED ledgerVars
    /\ UNCHANGED cacheVars

RetryEnvs ==
    {[DefaultEnv EXCEPT !.MAX_RETRY_ATTEMPTS = m] : m \in {"", "abc", "0", "1", "10"}}

RetryStarts ==
    { [file |-> NoFile, disk |-> {}],
      [file |-> NoFile, disk |-> {MediaFile(CourseTitle, 1, 1)}] }

InitRetry ==
    /\ course = 1
    /\ mainpc = "scrape"
    /\ env \in RetryEnvs
    /\ \E start \in RetryStarts :
          /\ completedVideos = loadProgress(start.file)
          /\ ledger = saveProgress(start.file, CourseUrl, CourseTitle, "processing")
          /\ disk = start.disk
    /\ subtitle_langs = <<>>
    /\ ledgerWritable = "ok"
    /\ InitScrape("specific")

NextRetry ==
    \/ LoadManifest
    \/ Prompt
    \/ SpecificNext
    \/ SpecificResume
    \/ \E j \in DOMAIN jobs : JobAfterProbe(j)
    \/ \E j \in DOMAIN jobs, ok \in BOOLEAN : ToolExit(j, ok)
    \/ \E j \in DOMAIN jobs : WaitElapsed(j)
    \/ \E j \in DOMAIN jobs, outcome \in PostOutcomes(subtitle_langs) : PostDone(j, outcome)

SpecRetry == InitRetry /\ [][NextRetry]_vars


(***************************************************************************)
(* SpecSelect: scrapeSite with downloadOption 'specific' and an answer to  *)
(* the checkbox prompt that ticks a unit and one of its videos.            *)
(***************************************************************************)
\* the checkbox returns the ticked entries in the order of the choices, the
\* unit's entry before its videos: the videos of unit k in order, then the
\* ticked video of that unit once more
UnitAndVideoSelections(units) ==
    {SelectSeq(videosOf(units, 1), LAMBDA w : w.unitNumber = v.unitNumber) \o <<v>> :
        v \in Range(videosOf(units, 1))}

PromptUnitAndVideo ==
    /\ spc = "select"
    /\ selected' \in UnitAndVideoSelections(allVideos)
    /\ nextTask' = 1
    /\ spc' = "iterate"
    /\ UNCHANGED <<env, disk, downloadOption, subtitle_langs, runs, embed, course, mainpc, site, allVideos, jobs,
                   activePromises, awaited, downloadedCount, processedCount,
                   skippedCount, reinvokes, preexisting>>
    /\ UNCHANGED ledgerVars
    /\ UNCHANGED cacheVars

SelectEnvs ==
    {[DefaultEnv EXCEPT !.MAX_RETRY_ATTEMPTS = m] : m \in {"0", "1"}}

InitSelect ==
    /\ course = 1
    /\ mainpc = "scrape"
    /\ env \in SelectEnvs
    /\ \E start \in RetryStarts :
          /\ completedVideos = loadProgress(start.file)
          /\ ledger = saveProgress(start.file, CourseUrl, CourseTitle, "processing")
          /\ disk = start.disk
    /\ subtitle_langs \in {<<>>, <<"es">>}
    /\ ledgerWritable = "ok"
    /\ InitScrape("specific")

NextSelect ==
    \/ LoadManifest
    \/ PromptUnitAndVideo
    \/ SpecificNext
    \/ SpecificResume
    \/ \E j \in DOMAIN jobs : JobAfterProbe(j)
    \/ \E j \in DOMAIN jobs, ok \in BOOLEAN : ToolExit(j, ok)
    \/ \E j \in DOMAIN jobs : WaitElapsed(j)
    \/ \E j \in DOMAIN jobs, outcome \in PostOutcomes(subtitle_langs) : PostDone(j, outcome)

SpecSelect == InitSelect /\ [][NextSelect]_vars


(***************************************************************************)
(* Claims checked under Spec.                                              *)
(***************************************************************************)
\* the jobs that were admitted and have no terminal outcome yet
InFlight == {j \in DOMAIN jobs : jobs[j].pc \notin {"queued"} \cup Terminal}

\* C1: while the scheduler works through its queue, the number of jobs
\* admitted and not yet at a terminal outcome never exceeds the ceiling
\* MAX_CONCURRENT_DOWNLOADS, whatever the queue length and the order in which
\* the jobs in flight finish.
C1_ConcurrencyCeiling == Cardinality(InFlight) <= MAX_CONCURRENT_DOWNLOADS(env)

\* C1 witness: every slot is taken and the for loop waits with a task left
C1_Witness ==
    /\ spc = "race"
    /\ nextTask <= Len(jobs)
    /\ Cardinality(InFlight) = MAX_CONCURRENT_DOWNLOADS(env)

\* a fetch-tool run of job j succeeded
Succeeded(j) ==
    \E k \in DOMAIN jobs[j].trace :
        jobs[j].trace[k].kind = "run" /\ jobs[j].trace[k].ok

\* every raw attempt of job j failed and none is left
Exhausted(j) ==
    /\ ~Succeeded(j)
    /\ jobs[j].trace # <<>>
    /\ jobs[j].trace[Len(jobs[j].trace)] =
           Run("best", FALSE, getMaxRetryAttempts(env))

\* downloadVideo threw although the fetch tool had succeeded
PostThrew(j) == Succeeded(j) /\ jobs[j].pc \in {"threw", "failed"}

PreexistingVideos ==
    {v \in Range(videosOf(allVideos, 1)) :
        checkVideoFileExists(preexisting, CourseTitle, UnitTitle, v.unitNumber, v.videoIndex, VideoTitle, Section) # {}}

\* the completed set was empty when scrapeSite was called, and no earlier
\* invocation of this run has put files in the target directory
EmptyAtStart ==
    /\ completedVideos \subseteq {jobVideoId(j) : j \in DOMAIN jobs}
    /\ reinvokes = 0

\* C4: for a video whose non-empty media file, named by the convention, is
\* in the target directory before the run, isVideoCompleted is true on an
\* empty completed set, the scheduler does not queue the video (so the fetch
\* tool never runs for it) and counts it as skipped.
C4_FilesystemFallback ==
    spc \in {"loop", "race", "join", "summary", "offer", "done"} =>
        /\ \A v \in PreexistingVideos :
              /\ isVideoCompleted(CourseUrl, v.unitNumber, v.videoIndex, {}, preexisting, TRUE, CourseTitle, UnitTitle, VideoTitle, Section)
              /\ \A j \in DOMAIN jobs :
                    <<jobs[j].unitNumber, jobs[j].videoIndex>> # <<v.unitNumber, v.videoIndex>>
        /\ skippedCount >= Cardinality(PreexistingVideos)
        /\ EmptyAtStart => skippedCount = Cardinality(PreexistingVideos)

\* C4 witness: the run ended having skipped the video whose file was there
\* and downloaded the other one
C4_Witness ==
    /\ spc = "done"
    /\ EmptyAtStart
    /\ Cardinality(PreexistingVideos) = 1
    /\ skippedCount = 1
    /\ Len(jobs) = 1
    /\ jobs[1].pc = "completed"

\* the ledger holds a `failed` row of job j's identity with retry count n
FailedRow(j, n) ==
    \E k \in DOMAIN ledger.lines :
        /\ Len(ledger.lines[k]) = Len(H9)
        /\ getVideoId(ledger.lines[k][1], ParseInt(ledger.lines[k][3]),
                      ParseInt(ledger.lines[k][5])) = jobVideoId(j)
        /\ ledger.lines[k][7] = "failed"
        /\ ledger.lines[k][9] = ToStr(n)

\* C8: once a job has used up its retries and downloadVideo has thrown, the
\* ledger holds a `failed` row of the job's identity carrying the final retry
\* count: the row is there before the scheduler sees the error.
C8_TerminalFailureOrdering ==
    \A j \in DOMAIN jobs :
        (jobs[j].pc \in {"threw", "failed"} /\ Exhausted(j)) =>
            /\ jobs[j].retryCount = getMaxRetryAttempts(env)
            /\ FailedRow(j, jobs[j].retryCount)

\* C8 witness: downloadVideo has thrown, the wrapper of the scheduler has
\* not resumed yet, and the row is in the ledger
C8_Witness ==
    \E j \in DOMAIN jobs :
        /\ jobs[j].pc = "threw"
        /\ Exhausted(j)
        /\ j \in activePromises
        /\ FailedRow(j, getMaxRetryAttempts(env))

\* the ledger holds a `completed` row of job j's identity
CompletedRow(j) ==
    \E k \in DOMAIN ledger.lines :
        /\ Len(ledger.lines[k]) = Len(H9)
        /\ getVideoId(ledger.lines[k][1], ParseInt(ledger.lines[k][3]),
                      ParseInt(ledger.lines[k][5])) = jobVideoId(j)
        /\ ledger.lines[k][7] = "completed"

\* C14: when the run has ended, the ledger holds a `completed` row for the
\* identity of every job that ended successfully, in whichever invocation of
\* the scheduler (ledger writes all succeeding).
C14_CompletedRecorded ==
    spc = "done" => \A j \in DOMAIN jobs : jobs[j].pc = "completed" => CompletedRow(j)


\* downloadVideo is over for job j: it returned or threw
CallOver(j) == jobs[j].pc \in {"returned", "threw", "completed", "failed"}

\* C15: every job the scheduler counts as not downloaded because
\* downloadVideo threw has a `failed` row carrying its retry count in the
\* ledger, and scrapeSite in 'all' mode never ends by a rejection.
C15_TerminalFailureRecorded ==
    /\ spc # "rejected"
    /\ \A j \in DOMAIN jobs :
          jobs[j].pc = "failed" => FailedRow(j, jobs[j].retryCount)

\* C16: when a scheduler run ends, the offer to update the cookies and run
\* again is made exactly when downloadedCount and skippedCount are both 0;
\* it is made nowhere else, and it is a prompt: scrapeSite then either calls
\* itself or goes on to its normal end, it does not throw.
C16_NothingSucceeded ==
    [][/\ spc = "summary" =>
             (spc' = "offer" <=> (downloadedCount = 0 /\ skippedCount = 0))
       /\ (spc' = "offer" /\ spc # "offer") => spc = "summary"
       /\ spc = "offer" => spc' \in {"offer", "start", "done"}]_vars

\* C16 witness: every job of the run failed, nothing was skipped, and the
\* user is being asked
C16_Witness ==
    /\ spc = "offer"
    /\ jobs # <<>>
    /\ \A j \in DOMAIN jobs : jobs[j].pc = "failed"
    /\ downloadedCount = 0
    /\ skippedCount = 0

ManifestBefore(a, b) ==
    \/ jobs[a].unitNumber < jobs[b].unitNumber
    \/ /\ jobs[a].unitNumber = jobs[b].unitNumber
       /\ jobs[a].videoIndex < jobs[b].videoIndex

\* the for loop has started job j
Admitted(j) == jobs[j].pc # "queued"

\* C28: the queue is in manifest order (unit ascending, then video index
\* ascending within the unit) and jobs are admitted in that order: for any
\* two jobs a before b in manifest order, b is admitted only when a has
\* been, whatever the jobs in flight have done meanwhile.
C28_AdmissionOrder ==
    /\ \A a, b \in DOMAIN jobs : a < b => ManifestBefore(a, b)
    /\ \A a, b \in DOMAIN jobs :
          (ManifestBefore(a, b) /\ Admitted(b)) => Admitted(a)

\* C28 witness: the later job was admitted after the earlier one and has
\* finished first, a third job still waiting in the queue or not
C28_Witness ==
    /\ downloadOption = "all"
    /\ \E a, b \in DOMAIN jobs :
          /\ ManifestBefore(a, b)
          /\ Admitted(a) /\ jobs[a].pc \notin Terminal
          /\ jobs[b].pc \in Terminal

\* the scheduler run of this invocation has ended
RunEnded == downloadOption = "all" /\ spc \in {"summary", "offer", "done"}

FailedJobs == {j \in DOMAIN jobs : jobs[j].pc = "failed"}

\* the videos of the manifest that the queue loop passes over as invalid
\* video data: no playbackURL, and not already completed
InvalidLeftOut ==
    LET videos == videosOf(allVideos, 1) IN
    {k \in DOMAIN videos : ~videos[k].playbackURL /\ ~isVideoCompletedNow(videos[k])}

C35_BoundedReauthentication ==
    reinvokes = MaxReinvoke => spc # "offer"

\* the rows this run has appended for the identity of job j
RunRows(j) ==
    {k \in DOMAIN ledger.lines :
        /\ Len(ledger.lines[k]) = Len(H9)
        /\ ledger.lines[k][8] = ThisRun
        /\ getVideoId(ledger.lines[k][1], ParseInt(ledger.lines[k][3]),
                      ParseInt(ledger.lines[k][5])) = jobVideoId(j)}

\* every step that changes the ledger while jobs run appends one row and
\* keeps the lines the file had, the header included
AppendKeepsRows ==
    [][ledger' # ledger =>
          /\ Len(ledger'.lines) = Len(ledger.lines) + 1
          /\ SubSeq(ledger'.lines, 1, Len(ledger.lines)) = ledger.lines]_vars

\* C34: no ledger update is lost: when the scheduler's run is over the
\* ledger holds exactly one row of this run for every job that terminated
\* (every append added one row and kept the others, so that one row per
\* terminated job is what the file must hold).
C34_NoLostLedgerUpdates ==
    spc \in {"summary", "offer", "done"} =>
        \A j \in DOMAIN jobs :
            jobs[j].pc \in Terminal => Cardinality(RunRows(j)) = 1

(***************************************************************************)
(* Claims checked under SpecResume.                                        *)
(***************************************************************************)
\* the queue of this process run has been built
QueueBuilt == spc \in {"loop", "race", "join", "summary", "offer", "done"}

\* the process run before this one
PreviousRun == runs[Len(runs)]

\* C20: in a process run that follows one whose jobs (there were some) all
\* completed, the queue that scrapeSite builds for the same manifest is
\* empty, so the fetch tool is never run, and every video the earlier run
\* downloaded or skipped is counted as skipped.
C20_ResumeSkipsAll ==
    (runs # <<>> /\ PreviousRun.queued > 0 /\ PreviousRun.everyJobCompleted /\ QueueBuilt) =>
        /\ jobs = <<>>
        /\ skippedCount = PreviousRun.downloaded + PreviousRun.skipped

(***************************************************************************)
(* Claims checked under SpecIO.                                            *)
(***************************************************************************)
\* downloadVideo call j passes its saveVideoProgress(..., 'completed') in
\* this step while the file system does not take the write
CompletedWriteFails(j) ==
    /\ ledgerWritable # "ok"
    /\ j \in DOMAIN jobs
    /\ j \in DOMAIN jobs'
    /\ jobs[j].pc \in {"probed", "post"}
    /\ jobs'[j].pc = "returned"

\* the ledger with the nine-column header put where it was missing
HeaderOnly(file) ==
    IF ~file.exists THEN FileOf(<<H9>>)
    ELSE IF ~hasCsvHeader(file) THEN FileOf(<<H9>> \o file.lines)
    ELSE file

\* what holds of loadProgress and of the counts whatever the writes do: a
\* ledger that does not parse loads as the empty set, and at the summary
\* every job whose call returned is completed and counted
DegradesQuietly ==
    /\ (ledger.exists /\ ~csvParseSync(ledger.lines).ok) => loadProgress(ledger) = {}
    /\ spc # "rejected"
    /\ spc \in {"summary", "offer", "done"} =>
          /\ \A j \in DOMAIN jobs : jobs[j].pc \in Terminal
          /\ downloadedCount = Cardinality({j \in DOMAIN jobs : jobs[j].pc = "completed"})
          /\ \A j \in DOMAIN jobs :
                jobs[j].pc = "completed" => jobVideoId(j) \in completedVideos

\* C24 as stated: a ledger that cannot be parsed loads as the empty set;
\* when the write of a `completed` row fails, downloadVideo still returns,
\* the identity is in the in-memory completed set, the job ends completed
\* and counted, and the ledger file is as it was before the call.
C24_Original ==
    /\ []DegradesQuietly
    /\ [][\A j \in 1..MaxVideos :
            CompletedWriteFails(j) =>
                /\ jobVideoId(j) \in completedVideos'
                /\ ledger' = ledger]_vars

\* C24 amended: as stated, except that the file after a failed write is
\* the file before the call or, when only the append of the row failed,
\* that file with the nine-column header written where it was missing.
C24_LedgerFailuresNonFatal ==
    /\ []DegradesQuietly
    /\ [][\A j \in 1..MaxVideos :
            CompletedWriteFails(j) =>
                /\ jobVideoId(j) \in completedVideos'
                /\ jobVideoId(j) \notin writtenVideoIds'
                /\ \/ ledger' = ledger
                   \/ ledgerWritable = "appendFails" /\ ledger' = HeaderOnly(ledger)]_vars

\* C24 witness: the run is over, a job is completed and counted, its
\* identity is in the completed set, and the ledger has no row for it
C24_Witness ==
    /\ spc = "done"
    /\ ledgerWritable # "ok"
    /\ \E j \in DOMAIN jobs :
          /\ jobs[j].pc = "completed"
          /\ Succeeded(j)
          /\ jobVideoId(j) \in completedVideos
          /\ ~CompletedRow(j)
    /\ downloadedCount >= 1

(***************************************************************************)
(* Claims checked under SpecSlots.                                         *)
(***************************************************************************)
\* the for loop waits for a slot with task n next, and one of the promises
\* it races has settled
SlotFreed(n) ==
    /\ spc = "race"
    /\ nextTask = n
    /\ n \in DOMAIN jobs
    /\ \E j \in awaited : jobs[j].pc \in Terminal

\* C29: whenever the for loop waits at the ceiling with a task still queued
\* and any one of the jobs in flight reaches a terminal state, the next
\* queued task is admitted, even if no other job in flight ever takes
\* another step.
C29_SlotReuse ==
    \A n \in 1..(MaxVideos + 1) :
        SlotFreed(n) ~> (n \in DOMAIN jobs /\ nextTask > n)

\* C29 witness: under a ceiling of two, the third task was admitted after
\* the second job ended while the first job is still downloading
C29_Witness ==
    /\ MAX_CONCURRENT_DOWNLOADS(env) = 2
    /\ Len(jobs) >= 3
    /\ jobs[1].pc \notin {"queued", "returned", "threw"} \cup Terminal
    /\ jobs[2].pc \in Terminal
    /\ jobs[3].pc # "queued"

(***************************************************************************)
(* Claims checked under SpecLive.                                          *)
(***************************************************************************)
\* the scheduler has handed every job to downloadVideo, every job has its
\* terminal outcome and no promise is in flight
AllSettled ==
    /\ nextTask > Len(jobs)
    /\ \A j \in DOMAIN jobs : jobs[j].pc \in Terminal
    /\ activePromises = {}

\* the state of a job in the terms of the scheduler: queued until its
\* downloadVideo call is made, running until the wrapper has counted it
JobState(job) ==
    IF job.pc = "queued" THEN "queued"
    ELSE IF job.pc \in Terminal THEN job.pc
    ELSE "running"

C19_RunTermination ==
    /\ [](spc = "race" => (awaited # {} /\ awaited \subseteq DOMAIN jobs))
    /\ [](spc \in {"summary", "offer", "done"} => AllSettled)
    /\ [](spc # "rejected")
    /\ (spc = "loop") ~> (spc = "summary" /\ AllSettled)

\* C19 witness: under a ceiling text that is no valid number, a run of two
\* jobs that were in flight together is at its summary
C19_Witness ==
    /\ spc = "summary"
    /\ ParseInt(env.MAX_CONCURRENT_DOWNLOADS) < 1
    /\ Len(jobs) = 2
    /\ AllSettled
    /\ \E j \in DOMAIN jobs : jobs[j].pc = "completed"
    /\ \E j \in DOMAIN jobs : jobs[j].pc = "failed"

(***************************************************************************)
(* Claims checked under SpecRetry.                                         *)
(***************************************************************************)
IsWait(e) == e.kind = "wait"
IsAttempt(e) == e.kind = "run" /\ e.tier = "1080p"
IsFailedBest(e) == e.kind = "run" /\ e.tier = "best" /\ ~e.ok

\* how many of the first k events of job j's trace are waits, 1080p runs,
\* failed best runs
WaitsUpto(j, k) == Cardinality({n \in 1..k : IsWait(jobs[j].trace[n])})
AttemptsUpto(j, k) == Cardinality({n \in 1..k : IsAttempt(jobs[j].trace[n])})
FailedBestUpto(j, k) == Cardinality({n \in 1..k : IsFailedBest(jobs[j].trace[n])})

Waits(j) == WaitsUpto(j, Len(jobs[j].trace))
Attempts(j) == AttemptsUpto(j, Len(jobs[j].trace))

\* C6: the wait before the k-th retry of a job is min(2^(k-1) * 1000,
\* 300000) milliseconds (1 s, 2 s, 4 s, 8 s, 16 s, 32 s for the first six)
\* and never more than 300 s.
C6_BackoffFormula ==
    \A j \in DOMAIN jobs : \A n \in DOMAIN jobs[j].trace :
        IsWait(jobs[j].trace[n]) =>
            LET k == WaitsUpto(j, n) IN
               /\ jobs[j].trace[n].ms =
                      (IF 2 ^ (k - 1) * 1000 <= 300000 THEN 2 ^ (k - 1) * 1000 ELSE 300000)
               /\ jobs[j].trace[n].ms <= 300000
               /\ k <= 6 => jobs[j].trace[n].ms = <<1000, 2000, 4000, 8000, 16000, 32000>>[k]

\* C6 witness: a job has waited ten times, 32 s the sixth time and the
\* capped 300 s the tenth time
C6_Witness ==
    \E j \in DOMAIN jobs :
        /\ \E n \in DOMAIN jobs[j].trace :
              /\ IsWait(jobs[j].trace[n])
              /\ WaitsUpto(j, n) = 6
              /\ jobs[j].trace[n].ms = 32000
        /\ \E n \in DOMAIN jobs[j].trace :
              /\ IsWait(jobs[j].trace[n])
              /\ WaitsUpto(j, n) = 10
              /\ jobs[j].trace[n].ms = 300000

\* the configured maximum as the documentation gives it: the positive
\* integer of MAX_RETRY_ATTEMPTS, else 5
ConfiguredMaximum ==
    IF ParseInt(env.MAX_RETRY_ATTEMPTS) >= 1 THEN ParseInt(env.MAX_RETRY_ATTEMPTS) ELSE 5

\* downloadVideo has left its retry loop
LoopLeft(j) == jobs[j].pc \in {"post", "returned", "threw", "completed", "failed"}

\* C7: with configured maximum M (default 5) a job makes at most M + 1 raw
\* attempts and at most M backoff waits; when every attempt fails it makes
\* exactly M + 1 attempts and M waits; a wait follows only a failed attempt
\* and none follows the final failed attempt.
C7_RetryBound ==
    \A j \in DOMAIN jobs :
        /\ Attempts(j) <= ConfiguredMaximum + 1
        /\ Waits(j) <= ConfiguredMaximum
        /\ (jobs[j].pc = "threw" /\ jobs[j].trace # <<>>) =>
              /\ Attempts(j) = ConfiguredMaximum + 1
              /\ Waits(j) = ConfiguredMaximum
        /\ \A n \in DOMAIN jobs[j].trace :
              IsWait(jobs[j].trace[n]) => n > 1 /\ IsFailedBest(jobs[j].trace[n - 1])
        /\ (LoopLeft(j) /\ jobs[j].trace # <<>>) =>
              ~IsWait(jobs[j].trace[Len(jobs[j].trace)])

\* C7 witness: under the default maximum every attempt of a job failed,
\* after six attempts and five waits
C7_Witness ==
    \E j \in DOMAIN jobs :
        /\ env.MAX_RETRY_ATTEMPTS = ""
        /\ jobs[j].pc = "threw"
        /\ Attempts(j) = 6
        /\ Waits(j) = 5
        /\ IsFailedBest(jobs[j].trace[Len(jobs[j].trace)])

\* C9: every raw attempt starts with the 1080p run; the best run is made
\* only right after the failed 1080p run of the same attempt, and is made
\* then; the retry counter is the number of attempts whose two runs both
\* failed and that were followed by a retry; a successful run is the last.
C9_QualityFallback ==
    \A j \in DOMAIN jobs :
        /\ \A n \in DOMAIN jobs[j].trace :
              LET e == jobs[j].trace[n] IN
                 /\ IsAttempt(e) => n = 1 \/ IsWait(jobs[j].trace[n - 1])
                 /\ (e.kind = "run" /\ e.tier = "best") =>
                        n > 1 /\ jobs[j].trace[n - 1] = Run("1080p", FALSE, e.retryCount)
                 /\ (IsAttempt(e) /\ ~e.ok /\ n < Len(jobs[j].trace)) =>
                        jobs[j].trace[n + 1].kind = "run" /\ jobs[j].trace[n + 1].tier = "best"
                 /\ (e.kind = "run" /\ e.ok) => n = Len(jobs[j].trace) /\ LoopLeft(j)
                 /\ e.kind = "run" =>
                        e.retryCount = FailedBestUpto(j, n - 1)
                 /\ IsWait(e) => e.retryCount = FailedBestUpto(j, n)
        /\ jobs[j].retryCount = Waits(j)
        /\ (jobs[j].pc = "tier2") =>
              jobs[j].trace[Len(jobs[j].trace)] = Run("1080p", FALSE, jobs[j].retryCount)

\* C9 witness: both runs of the first attempt failed, the retry counter went
\* to 1, and in the second attempt the best run succeeded after the 1080p
\* run had failed
C9_Witness ==
    \E j \in DOMAIN jobs :
        /\ jobs[j].pc = "post"
        /\ jobs[j].retryCount = 1
        /\ jobs[j].trace = <<Run("1080p", FALSE, 0), Run("best", FALSE, 0),
                             Wait(1000, 1), Run("1080p", FALSE, 1),
                             Run("best", TRUE, 1)>>

\* C27: in 'specific' mode a selected video that exhausts its retries does
\* not abort scrapeSite: the error does not leave scrapeSite, and the
\* selected videos after it are still attempted (none is left untried when
\* scrapeSite is over).
C27_SpecificFailureIsolation ==
    (downloadOption = "specific" /\ \E j \in DOMAIN jobs : Exhausted(j)) =>
        /\ spc # "thrown"
        /\ spc \in {"done", "thrown"} => nextTask > Len(selected)

(***************************************************************************)
(* Claims checked under SpecMain.                                          *)
(***************************************************************************)
\* every downloadVideo call of the open scrapeSite call has ended and its
\* wrapper has settled
JobsAllOver ==
    \A j \in DOMAIN jobs : jobs[j].pc \in Terminal /\ j \notin activePromises

FailedAtCourseLevel(file, url) ==
    /\ file.exists
    /\ \E k \in DOMAIN file.lines :
          /\ k > 1
          /\ LineIsCourseLevel(file.lines[k])
          /\ normalizeDomestikaUrl(file.lines[k][1]).url = url
          /\ LineStatus(file.lines[k]) = "failed"

\* when scrapeSite throws, main writes the course-level failed row and goes
\* on with the loop
FailureRecorded ==
    [][(mainpc = "scrape" /\ mainpc' # "scrape" /\ spc # "done") =>
          /\ FailedAtCourseLevel(ledger', CourseUrl)
          /\ mainpc' = "loop"
          /\ course' = course + 1]_vars

\* main comes to the reports only after the loop has gone through every
\* course
EveryCourseTaken ==
    mainpc \in {"reports", "exit0"} => course = Len(coursesToProcess) + 1

\* C22: an error of scrapeSite for one course is recorded as a course-level
\* failed row, main continues with every remaining course, and the process
\* exits non-zero only when a fatal precondition kept every course from
\* starting.
C22_CourseFailureNotFatal ==
    /\ FailureRecorded
    /\ []EveryCourseTaken
    /\ [](mainpc = "exit1" => (course = 1 /\ spc = "idle" /\ jobs = <<>>))

\* C26: a course-level completed row that loadProgress found at the start
\* of the run is still in the ledger once main has processed the course
\* without an error: loadProgress of the ledger again yields the wildcard
\* identity.
C26_LegacyRowStaysValid ==
    \A k \in DOMAIN coursesToProcess :
        (mainpc # "init" /\ k < course
            /\ wildcardId(coursesToProcess[k]) \in completedVideos
            /\ ~FailedAtCourseLevel(ledger, normalizeDomestikaUrl(coursesToProcess[k]).url)) =>
            wildcardId(coursesToProcess[k]) \in loadProgress(ledger)


\* C33: the manifest cache file is written only outside the concurrent job
\* phase: no step that changes the cache file (the save after scraping, the
\* eviction of an expired entry, the flag flip) is taken from a state in
\* which a job of the queue has started and has not yet terminated.
C33_CacheWrittenOutsideJobs ==
    [][cacheFile' # cacheFile => InFlight = {}]_vars

\* the second course's entry was saved after the first course's jobs, and
\* the second course's jobs are now in flight beside the file
C33_Witness ==
    /\ course = 2
    /\ mainpc = "scrape"
    /\ DOMAIN cacheFile = {normalizeDomestikaUrl(coursesToProcess[c]).url : c \in {1, 2}}
    /\ InFlight # {}

(***************************************************************************)
(* Claims checked under SpecSelect.                                        *)
(***************************************************************************)
\* the fetch tool was started by the call of job j
Fetched(j) == jobs[j].trace # <<>>

\* C40: in-run completion is monotonic.  The in-memory completed set only
\* grows; once the call for an identity has returned, isVideoCompleted is
\* true of that identity in every later state of the run; and so, for a
\* video ticked both through its unit and on its own, at most one
\* downloadVideo call starts the fetch tool.
C40_CompletionMonotonic ==
    /\ [][completedVideos \subseteq completedVideos']_vars
    /\ [](\A j \in DOMAIN jobs :
             jobs[j].pc = "returned" => isVideoCompletedNow(jobs[j]))
    /\ [](\A j, k \in DOMAIN jobs :
             (j # k /\ jobVideoId(j) = jobVideoId(k)) => ~(Fetched(j) /\ Fetched(k)))

\* the run is over, the ticked video was fetched by the call made for its
\* unit, and its second entry was skipped
C40_Witness ==
    /\ spc = "done"
    /\ Len(jobs) < Len(selected)
    /\ \E j \in DOMAIN jobs :
          /\ Fetched(j)
          /\ jobs[j].pc = "returned"
          /\ jobs[j].unitNumber = selected[Len(selected)].unitNumber
          /\ jobs[j].videoIndex = selected[Len(selected)].videoIndex


=========================================================================
